---- MODULE Spec2Model ----
(***************************************************************************)
(* The retrieval engine of mock-api-realtime (src/rag.py, PGVectorStore)   *)
(* and its callers in src/main.py, as a state machine.                     *)
(*                                                                         *)
(* Python values are tagged records [tag, val]; a dict is a sequence of    *)
(* <<key, value>> pairs in insertion order; SQL text is a TLA+ string      *)
(* built by concatenation exactly where the code builds it with f-strings  *)
(* or +=; a SQL NULL column is a column missing from the row's DOMAIN.     *)
(***************************************************************************)
EXTENDS Integers, Sequences, FiniteSets, TLC

VARIABLES
    inventory,  \* demo_vehicle_inventory: a sequence of rows (heap order)
    txStatus,   \* transaction status of PGVectorStore.connection (psycopg2)
    connOwner,  \* request thread whose statement the connection is running, or 0
    pc,         \* pc[t]: where request thread t is in its handler
    call,       \* call[t]: the operation and arguments thread t was given
    qtext,      \* qtext[t]: the local variable query of the running call
    sql,        \* sql[t]: query text the call last handed to cursor.execute
    params,     \* params[t]: values bound to that text
    io,         \* io[t]: I/O the call has performed so far, in order
    fault,      \* fault[t]: the exception raised inside the call's try, or ""
    result,     \* result[t]: what the call gave back to its caller
    index,      \* documents added through PGVectorStore.add_documents: {[id, content]}
    frame,      \* frame[t]: local variables of the endpoint or service call of thread t
    tables      \* committed rows of the tables the services under src/app write

\* what the searches never touch
stores == <<index, frame, tables>>

\* what only the searches touch
engine == <<inventory, txStatus, connOwner, qtext, sql, params>>

vars == <<inventory, txStatus, connOwner, pc, call, qtext, sql, params, io, fault, result,
          stores>>

Threads == {1, 2}

---------------------------------------------------------------------------
(* Python and JSON values *)

VStr(s)   == [tag |-> "str",   val |-> s]
VInt(n)   == [tag |-> "int",   val |-> n]
VBool(b)  == [tag |-> "bool",  val |-> b]
VList(l)  == [tag |-> "list",  val |-> l]
VDict(d)  == [tag |-> "dict",  val |-> d]
VNone     == [tag |-> "none",  val |-> 0]
\* a float carried in tenths: VFloat(5) is 0.5
VFloat(t) == [tag |-> "float", val |-> t]

Abs(n) == IF n < 0 THEN -n ELSE n

\* repr of a float given in tenths, as str() prints it
FloatStr(t) ==
    (IF t < 0 THEN "-" ELSE "") \o ToString(Abs(t) \div 10) \o "." \o ToString(Abs(t) % 10)

\* Python str(value), as used by an f-string
PyStr(v) ==
    CASE v.tag = "str"   -> v.val
      [] v.tag = "int"   -> ToString(v.val)
      [] v.tag = "bool"  -> IF v.val THEN "True" ELSE "False"
      [] v.tag = "float" -> FloatStr(v.val)
      [] v.tag = "none"  -> "None"
      [] OTHER           -> "<object>"

\* PostgreSQL jsonb ->> : the text of a scalar JSON value
JsonText(v) ==
    CASE v.tag = "str"   -> v.val
      [] v.tag = "int"   -> ToString(v.val)
      [] v.tag = "bool"  -> IF v.val THEN "true" ELSE "false"
      [] v.tag = "float" -> FloatStr(v.val)
      [] OTHER           -> "<json>"

\* number of occurrences of character c in string s
CountChar(s, c) == Cardinality({ i \in 1..Len(s) : SubSeq(s, i, i) = c })

RECURSIVE JoinStr(_, _)
\* sep.join(parts)
JoinStr(parts, sep) ==
    IF Len(parts) = 0 THEN ""
    ELSE IF Len(parts) = 1 THEN parts[1]
    ELSE parts[1] \o sep \o JoinStr(Tail(parts), sep)

\* the strings of s that are not "", in order
NonEmpty(s) == SelectSeq(s, LAMBDA x : x # "")

---------------------------------------------------------------------------
(* build_filter_query *)

\* isinstance(value, (int, float)) is true of a bool too
IsNumber(v) == v.tag \in {"int", "float", "bool"}

\* one loop iteration of build_filter_query: the condition appended, or "" when
\* no branch of the if/elif chain applies
Condition(key, value) ==
    IF IsNumber(value) THEN "cmetadata ->> '" \o key \o "' = '" \o PyStr(value) \o "'"
    ELSE IF value.tag = "str" THEN "cmetadata ->> '" \o key \o "' = '" \o PyStr(value) \o "'"
    ELSE IF value.tag = "list" THEN
        "cmetadata ->> '" \o key \o "' IN ('"
            \o JoinStr([i \in 1..Len(value.val) |-> PyStr(value.val[i])], "','") \o "')"
    ELSE ""

build_filter_query(filter_dict) ==
    IF Len(filter_dict) = 0 THEN ""
    ELSE JoinStr(NonEmpty([i \in 1..Len(filter_dict) |->
                            Condition(filter_dict[i][1], filter_dict[i][2])]), " AND ")

---------------------------------------------------------------------------
(* The embedded-document table langchain_pg_embedding and its collaborators *)

\* config.COLLECTION_ID, the collection every query of rag.py is restricted to
COLLECTION_ID == "c1"

\* Rows of langchain_pg_embedding. embedding is a point on a line in tenths (the
\* L2 distance of two unit vectors runs from 0 to 2), cmetadata a JSON object
\* (<<>> is the empty object), rank the ts_rank_cd of the document in tenths for
\* the query texts that match it.
Corpus ==
    { [id |-> 1, collection_id |-> "c1", document |-> "oil change 9am",
       cmetadata |-> [type |-> VStr("appointment"), year |-> VInt(2020)],
       embedding |-> 12, rank |-> [brake |-> 0]],
      [id |-> 2, collection_id |-> "c1", document |-> "brake pads 3pm",
       cmetadata |-> [type |-> VStr("appointment"), certified |-> VBool(TRUE)],
       embedding |-> 14, rank |-> [brake |-> 2]],
      [id |-> 3, collection_id |-> "c1", document |-> "Toyota Corolla",
       cmetadata |-> [type |-> VStr("vehicle")],
       embedding |-> -1, rank |-> [Toyota |-> 1]],
      [id |-> 4, collection_id |-> "c2", document |-> "other tenant",
       cmetadata |-> [type |-> VStr("appointment")],
       embedding |-> 9, rank |-> [brake |-> 1]] }

\* OpenAIEmbeddings.embed_query: the point the text embeds to
EmbedQuery(text) ==
    CASE text = "brake"  -> 12
      [] text = "Toyota" -> 5
      [] OTHER           -> 8

\* embedding <-> %s::vector, in tenths
Distance(row, embedding) == Abs(row.embedding - embedding)

\* ts_rank_cd(to_tsvector('english', document), plainto_tsquery('english', text)), in tenths
TsRankCd(row, text) == IF text \in DOMAIN row.rank THEN row.rank[text] ELSE 0

\* doc.ents of the spaCy pipeline, as the dict {ent.label_: ent.text}
Entities(query) ==
    CASE query = "Toyota" -> << <<"ORG", "Toyota">> >>
      [] OTHER            -> << >>

HasQuote(s) == CountChar(s, "'") > 0

\* A key or value with a quote in it ends the SQL literal it was pasted into:
\* PostgreSQL rejects the statement.
BreaksLiteral(filter_dict) ==
    \E i \in 1..Len(filter_dict) :
        LET key == filter_dict[i][1]  value == filter_dict[i][2] IN
        \/ Condition(key, value) # "" /\ HasQuote(key)
        \/ (IsNumber(value) \/ value.tag = "str") /\ HasQuote(PyStr(value))
        \/ value.tag = "list" /\ \E j \in 1..Len(value.val) : HasQuote(PyStr(value.val[j]))

\* LIMIT {k}: None is no number, a negative number is refused
BadLimit(k) == k.tag # "int" \/ k.val < 0

\* What the WHERE clause of a well-formed statement selects: collection_id = %s
\* AND every condition build_filter_query appended.
\* the texts IN ('...') lists: "','".join(...) of no values is the one text ''
ListTexts(l) == IF Len(l) = 0 THEN {""} ELSE { PyStr(l[j]) : j \in 1..Len(l) }

RowSatisfies(row, key, value) ==
    IF IsNumber(value) \/ value.tag = "str"
    THEN key \in DOMAIN row.cmetadata /\ JsonText(row.cmetadata[key]) = PyStr(value)
    ELSE IF value.tag = "list"
    THEN key \in DOMAIN row.cmetadata /\ JsonText(row.cmetadata[key]) \in ListTexts(value.val)
    ELSE TRUE

Selected(filter_dict) ==
    { row \in Corpus :
        /\ row.collection_id = COLLECTION_ID
        /\ \A i \in 1..Len(filter_dict) :
              RowSatisfies(row, filter_dict[i][1], filter_dict[i][2]) }

Min(a, b) == IF a < b THEN a ELSE b

\* Every order ORDER BY may return the rows of S in: ascending under the relation le, rows
\* that le does not tell apart in any order
Orderings(S, le) ==
    { s \in [1..Cardinality(S) -> S] :
        \A i, j \in 1..Cardinality(S) : i < j => s[i] # s[j] /\ <<s[i], s[j]>> \in le }

Take(s, k) == SubSeq(s, 1, Min(k, Len(s)))

\* Document(page_content=row[0], metadata=row[1] if row[1] else {})
Document(row) == [page_content |-> row.document, metadata |-> row.cmetadata]

Documents(rows) == [i \in 1..Len(rows) |-> Document(rows[i])]

Docs(seq)  == [tag |-> "docs", val |-> seq]
Pending    == [tag |-> "pending", val |-> 0]

---------------------------------------------------------------------------
(* Query text of similarity_search and hybrid_search *)

\* query_sql of similarity_search, with filter_clause and k pasted in
SimilaritySql(filter_clause, k) ==
    "SELECT document, cmetadata, embedding FROM langchain_pg_embedding"
        \o " WHERE collection_id = %s "
        \o (IF filter_clause # "" THEN "AND " \o filter_clause ELSE "")
        \o " ORDER BY embedding <-> %s::vector LIMIT " \o PyStr(k) \o ";"

\* 1 - weight, both in tenths
OneMinus(weight) == VFloat(10 - weight.val)

\* sql of hybrid_search, with 1 - weight, weight, filter_clause and k pasted in
HybridSql(filter_clause, k, weight) ==
    "SELECT document, cmetadata, (ts_rank_cd(to_tsvector('english', document),"
        \o " plainto_tsquery('english', %s)) * " \o PyStr(OneMinus(weight)) \o ") +"
        \o " ((1 - (embedding <-> %s::vector)) * " \o PyStr(weight) \o ") AS hybrid_score"
        \o " FROM langchain_pg_embedding WHERE collection_id = %s "
        \o (IF filter_clause # "" THEN "AND " \o filter_clause ELSE "")
        \o " ORDER BY hybrid_score DESC LIMIT " \o PyStr(k) \o ";"

\* HybridScore with the two weights exchanged
HybridScoreSwapped(row, text, embedding, weight) ==
    TsRankCd(row, text) * weight.val + (10 - Distance(row, embedding)) * (10 - weight.val)

\* hybrid_score of a row, in hundredths
HybridScore(row, text, embedding, weight) ==
    TsRankCd(row, text) * (10 - weight.val) + (10 - Distance(row, embedding)) * weight.val

\* not (0 <= weight <= 1); comparing None with a number raises TypeError instead
WeightInRange(weight) == weight.tag = "float" /\ 0 <= weight.val /\ weight.val <= 10

\* The statement is refused by the server
Rejected(filter_dict, k) == BreaksLiteral(filter_dict) \/ BadLimit(k)

\* The lists cur.fetchall() may hold for the similarity query
SimilarityRows(filter_dict, k, embedding) ==
    LET LE(a, b) == Distance(a, embedding) <= Distance(b, embedding)
        S == Selected(filter_dict)
    IN  { Take(s, k.val) : s \in Orderings(S, { p \in S \X S : LE(p[1], p[2]) }) }

\* The lists cur.fetchall() may hold for the hybrid query
HybridRows(filter_dict, k, text, embedding, weight) ==
    LET LE(a, b) == HybridScore(a, text, embedding, weight)
                        >= HybridScore(b, text, embedding, weight)
        S == Selected(filter_dict)
    IN  { Take(s, k.val) : s \in Orderings(S, { p \in S \X S : LE(p[1], p[2]) }) }

---------------------------------------------------------------------------
(* search_vehicle_inventory: the query and what PostgreSQL answers *)

\* default_columns
default_columns ==
    <<"vin", "stock_number", "type", "year", "make", "model", "trim", "style",
      "model_number", "mileage", "exterior_color", "interior_color", "msrp",
      "selling_price", "drive_type", "fuel_type", "transmission", "wheelbase", "body",
      "doors", "vehicle_status", "city_fuel_economy", "highway_fuel_economy",
      "features", "packages">>

\* the columns whose LENGTH the estimated_token_count expression adds up
TextColumns ==
    <<"vin", "stock_number", "type", "make", "model", "trim", "style", "exterior_color",
      "interior_color", "fuel_type", "transmission", "drive_type", "engine_type",
      "features", "packages", "description", "options">>

\* The if-chain that extends the query, in the order of the code: the parameter, the
\* column it is compared with, the comparison, and the test that guards the clause
\* ("truthy": if x; "notnone": if x is not None).
FilterChain ==
    << [name |-> "vin",            column |-> "vin",            op |-> "=",     guard |-> "truthy"],
       [name |-> "stock_number",   column |-> "stock_number",   op |-> "ILIKE", guard |-> "truthy"],
       [name |-> "vehicle_type",   column |-> "type",           op |-> "ILIKE", guard |-> "truthy"],
       [name |-> "year",           column |-> "year",           op |-> "=",     guard |-> "truthy"],
       [name |-> "make",           column |-> "make",           op |-> "ILIKE", guard |-> "truthy"],
       [name |-> "model",          column |-> "model",          op |-> "ILIKE", guard |-> "truthy"],
       [name |-> "trim",           column |-> "trim",           op |-> "ILIKE", guard |-> "truthy"],
       [name |-> "style",          column |-> "style",          op |-> "ILIKE", guard |-> "truthy"],
       [name |-> "exterior_color", column |-> "exterior_color", op |-> "ILIKE", guard |-> "truthy"],
       [name |-> "interior_color", column |-> "interior_color", op |-> "ILIKE", guard |-> "truthy"],
       [name |-> "certified",      column |-> "certified",      op |-> "=",     guard |-> "notnone"],
       [name |-> "min_price",      column |-> "selling_price",  op |-> ">=",    guard |-> "truthy"],
       [name |-> "max_price",      column |-> "selling_price",  op |-> "<=",    guard |-> "truthy"],
       [name |-> "fuel_type",      column |-> "fuel_type",      op |-> "ILIKE", guard |-> "truthy"],
       [name |-> "transmission",   column |-> "transmission",   op |-> "ILIKE", guard |-> "truthy"],
       [name |-> "drive_type",     column |-> "drive_type",     op |-> "ILIKE", guard |-> "truthy"],
       [name |-> "doors",          column |-> "doors",          op |-> "=",     guard |-> "truthy"],
       [name |-> "engine_type",    column |-> "engine_type",    op |-> "ILIKE", guard |-> "truthy"],
       [name |-> "features",       column |-> "features",       op |-> "ILIKE", guard |-> "truthy"],
       [name |-> "packages",       column |-> "packages",       op |-> "ILIKE", guard |-> "truthy"] >>

\* bool(value) of Python
Truthy(v) ==
    CASE v.tag = "str"   -> v.val # ""
      [] v.tag = "int"   -> v.val # 0
      [] v.tag = "float" -> v.val # 0
      [] v.tag = "bool"  -> v.val
      [] OTHER           -> FALSE

\* args gives the keyword arguments that are not None. The guard of link f passes.
Applies(f, args) ==
    /\ f.name \in DOMAIN args
    /\ f.guard = "truthy" => Truthy(args[f.name])

\* the value put in params for link f: ILIKE patterns are wrapped in %...%
Bound(f, args) ==
    IF f.op = "ILIKE" THEN VStr("%" \o PyStr(args[f.name]) \o "%") ELSE args[f.name]

\* the text up to WHERE TRUE (the column list is abridged here) and after the filters
QueryHead ==
    "WITH filtered AS (SELECT vin, ..., packages, (COALESCE(LENGTH(vin), 0) + ..."
        \o " + COALESCE(LENGTH(options), 0)) / 5 AS estimated_token_count"
        \o " FROM demo_vehicle_inventory WHERE TRUE"

QueryTail ==
    " ), cumulative AS (SELECT *, SUM(estimated_token_count) OVER"
        \o " (ORDER BY date_in_stock ASC) AS cumulative_tokens FROM filtered)"
        \o " SELECT vin, ..., packages FROM cumulative"
        \o " WHERE cumulative_tokens <= %(context_limit)s ORDER BY date_in_stock ASC;"

RECURSIVE Clauses(_, _)
\* the text the if-chain from link i on appends
Clauses(i, args) ==
    IF i > Len(FilterChain) THEN ""
    ELSE LET f == FilterChain[i] IN
         (IF Applies(f, args)
          THEN " AND " \o f.column \o " " \o f.op \o " %(" \o f.name \o ")s" ELSE "")
         \o Clauses(i + 1, args)

\* query as handed to cur.execute
InventoryQuery(args) == QueryHead \o Clauses(1, args) \o QueryTail

RECURSIVE BoundFrom(_, _)
BoundFrom(i, args) ==
    IF i > Len(FilterChain) THEN <<>>
    ELSE LET f == FilterChain[i] IN
         (IF Applies(f, args) THEN << <<f.name, Bound(f, args)>> >> ELSE <<>>)
         \o BoundFrom(i + 1, args)

\* params as handed to cur.execute, in insertion order
InventoryParams(args, context_limit) ==
    BoundFrom(1, args) \o << <<"context_limit", context_limit>> >>

Upper == "ABCDEFGHIJKLMNOPQRSTUVWXYZ"
LowerLetters == "abcdefghijklmnopqrstuvwxyz"

RECURSIVE LowerFrom(_, _)
LowerFrom(c, i) ==
    IF i > Len(Upper) THEN c
    ELSE IF SubSeq(Upper, i, i) = c THEN SubSeq(LowerLetters, i, i)
    ELSE LowerFrom(c, i + 1)

\* the lower-case form of a one-character string
Lower(c) == LowerFrom(c, 1)

RECURSIVE LikeFrom(_, _, _, _)
\* s from position i on matches pattern p from position j on, letter case ignored:
\* % stands for any run of characters, _ for any one character
LikeFrom(s, i, p, j) ==
    IF j > Len(p) THEN i > Len(s)
    ELSE LET c == SubSeq(p, j, j) IN
         IF c = "%" THEN \/ LikeFrom(s, i, p, j + 1)
                         \/ i <= Len(s) /\ LikeFrom(s, i + 1, p, j)
         ELSE IF c = "_" THEN i <= Len(s) /\ LikeFrom(s, i + 1, p, j + 1)
         ELSE /\ i <= Len(s)
              /\ Lower(SubSeq(s, i, i)) = Lower(c)
              /\ LikeFrom(s, i + 1, p, j + 1)

\* PostgreSQL: s ILIKE p
ILike(s, p) == LikeFrom(s, 1, p, 1)

\* One appended clause, evaluated on a row; a comparison with NULL is not true
ClauseHolds(f, args, row) ==
    /\ f.column \in DOMAIN row
    /\ CASE f.op = "="     -> row[f.column] = Bound(f, args).val
         [] f.op = "ILIKE" -> ILike(row[f.column], Bound(f, args).val)
         [] f.op = ">="    -> row[f.column] >= Bound(f, args).val
         [] f.op = "<="    -> row[f.column] <= Bound(f, args).val

\* the rows of the CTE filtered, as positions in the table
Filtered(table, args) ==
    { i \in 1..Len(table) :
        \A n \in 1..Len(FilterChain) :
            Applies(FilterChain[n], args) => ClauseHolds(FilterChain[n], args, table[i]) }

RECURSIVE LengthSum(_, _)
\* COALESCE(LENGTH(col), 0) summed over the text columns from position n on
LengthSum(row, n) ==
    IF n > Len(TextColumns) THEN 0
    ELSE (IF TextColumns[n] \in DOMAIN row THEN Len(row[TextColumns[n]]) ELSE 0)
         + LengthSum(row, n + 1)

\* estimated_token_count: integer division by 5
estimated_token_count(row) == LengthSum(row, 1) \div 5

\* ORDER BY date_in_stock ASC: a sorts no later than b (NULLs sort last, as peers)
DateLE(a, b) ==
    \/ "date_in_stock" \notin DOMAIN b
    \/ "date_in_stock" \in DOMAIN a /\ a.date_in_stock <= b.date_in_stock

RECURSIVE SumCost(_, _)
SumCost(table, S) ==
    IF S = {} THEN 0
    ELSE LET i == CHOOSE x \in S : TRUE IN
         estimated_token_count(table[i]) + SumCost(table, S \ {i})

\* SUM(estimated_token_count) OVER (ORDER BY date_in_stock ASC) at row i: the frame
\* of a window with ORDER BY and no frame clause is RANGE UNBOUNDED PRECEDING, which
\* runs to the last peer of the current row
cumulative_tokens(table, F, i) ==
    SumCost(table, { j \in F : DateLE(table[j], table[i]) })

\* Windowed with each row's own count compared with the limit, not the running sum
WindowedPerRow(table, F, context_limit) ==
    { i \in F : /\ context_limit.tag = "int"
                /\ estimated_token_count(table[i]) <= context_limit.val }

\* the rows that pass WHERE cumulative_tokens <= %(context_limit)s; a comparison
\* with a NULL limit is not true
Windowed(table, F, context_limit) ==
    { i \in F : /\ context_limit.tag = "int"
                /\ cumulative_tokens(table, F, i) <= context_limit.val }

\* The lists cur.fetchall() may hold, as positions in the table
InventoryRows(table, args, context_limit) ==
    LET LE(i, j) == DateLE(table[i], table[j])
        S == Windowed(table, Filtered(table, args), context_limit)
    IN  Orderings(S, { p \in S \X S : LE(p[1], p[2]) })

RECURSIVE SplitComma(_, _, _)
\* fields.split(","), reading from position i with the piece cur begun
SplitComma(s, i, cur) ==
    IF i > Len(s) THEN <<cur>>
    ELSE IF SubSeq(s, i, i) = "," THEN <<cur>> \o SplitComma(s, i + 1, "")
    ELSE SplitComma(s, i + 1, cur \o SubSeq(s, i, i))

RECURSIVE Strip(_)
\* field.strip() for blanks
Strip(s) ==
    IF Len(s) > 0 /\ Head(s) = " " THEN Strip(Tail(s))
    ELSE IF Len(s) > 0 /\ SubSeq(s, Len(s), Len(s)) = " " THEN Strip(SubSeq(s, 1, Len(s) - 1))
    ELSE s

\* all_columns = default_columns + columns; fields is "" when not given
all_columns(fields) ==
    LET pieces == IF fields = "" THEN <<>> ELSE SplitComma(fields, 1, "") IN
    default_columns \o [i \in 1..Len(pieces) |-> Strip(pieces[i])]

\* the columns of the final SELECT, which are the keys of each fetched dict
SelectColumns ==
    <<"vin", "stock_number", "type", "year", "make", "model", "trim", "style",
      "model_number", "mileage", "exterior_color", "exterior_color_code",
      "interior_color", "interior_color_code", "date_in_stock", "certified", "msrp",
      "invoice", "book_value", "selling_price", "engine_cylinders",
      "engine_displacement", "drive_type", "fuel_type", "transmission", "wheelbase",
      "body", "doors", "description", "options", "kbb_retail", "kbb_valuation_date",
      "kbb_zip_code", "added_equipment_pricing", "dealer_processing_fee", "location",
      "vehicle_status", "engine_type", "drive_line", "transmission_secondary",
      "city_fuel_economy", "highway_fuel_economy", "features", "packages">>

\* dict(zip(columns, row)) of a fetched row: a column's value v is <<v>>, the None
\* of a NULL column is << >>
Fetched(row) ==
    [c \in { SelectColumns[i] : i \in 1..Len(SelectColumns) } |->
        IF c \in DOMAIN row THEN <<row[c]>> ELSE << >>]

\* Project giving back the whole fetched dict
ProjectAll(row, columns) == Fetched(row)

\* {k: v for k, v in d.items() if k in all_columns}
Project(row, columns) ==
    LET d == Fetched(row) IN
    [c \in (DOMAIN d) \cap { columns[i] : i \in 1..Len(columns) } |-> d[c]]

\* {"data": data}; rows keeps, for each dict of data, the table row it came from
Data(table, rows, columns) ==
    [tag |-> "data", val |-> [i \in 1..Len(rows) |-> Project(table[rows[i]], columns)],
     rows |-> rows]

\* {"error": str(e)}
Error(message) == [tag |-> "error", val |-> message]

---------------------------------------------------------------------------
(* Calls *)

NoArgs == << >>

SimilarityCall(query, filter, k, native) ==
    [op |-> "similarity_search", query |-> query, filter |-> filter, k |-> k,
     native |-> native, weight |-> VFloat(5), use_entities |-> FALSE,
     args |-> NoArgs, fields |-> "", context_limit |-> VNone]

HybridCall(query, filter, k, weight, use_entities) ==
    [op |-> "hybrid_search", query |-> query, filter |-> filter, k |-> k,
     native |-> TRUE, weight |-> weight, use_entities |-> use_entities,
     args |-> NoArgs, fields |-> "", context_limit |-> VNone]

InventoryCall(args, fields, context_limit) ==
    [op |-> "search_vehicle_inventory", query |-> "", filter |-> << >>, k |-> VInt(0),
     native |-> TRUE, weight |-> VFloat(5), use_entities |-> FALSE,
     args |-> args, fields |-> fields, context_limit |-> context_limit]

NoCall == [op |-> "none"]

Entry(c) ==
    CASE c.op = "similarity_search" -> IF c.native THEN "sim_embed" ELSE "sim_store"
      [] c.op = "hybrid_search"     -> "hyb_check"
      [] c.op = "add_documents"     -> "add_loop"
      [] c.op = "get_vector_info"   -> "vi_rerank"
      [] c.op = "save_contact_info" -> "ct_check"
      [] c.op = "save_conversation_data" -> "sv_connect"
      [] c.op = "get_conversation_data"  -> "gc_query"
      [] c.op = "create_appointment" -> "ap_create"
      [] c.op = "update_appointment" -> "ap_update"
      [] c.op = "delete_appointment_by_phone_number" -> "ap_delete"
      [] OTHER                      -> "inv_exec"

---------------------------------------------------------------------------
(* The handlers, one action per step between two points where another request
   thread can run. FastAPI runs the def endpoints of main.py on a thread pool;
   all of them use the one PGVectorStore and its one psycopg2 connection. *)

\* A request thread enters a method of PGVectorStore with the arguments c.
Start(t, c) ==
    /\ pc[t] \in {"idle", "done"}
    /\ call'   = [call   EXCEPT ![t] = c]
    /\ qtext'  = [qtext  EXCEPT ![t] = c.query]
    /\ sql'    = [sql    EXCEPT ![t] = ""]
    /\ params' = [params EXCEPT ![t] = << >>]
    /\ io'     = [io     EXCEPT ![t] = << >>]
    /\ fault'  = [fault  EXCEPT ![t] = ""]
    /\ result' = [result EXCEPT ![t] = Pending]
    /\ pc'     = [pc     EXCEPT ![t] = Entry(c)]
    /\ UNCHANGED <<inventory, txStatus, connOwner>>

\* except Exception as e: print(...) -- the method ends without a return statement
Swallow(t, e) ==
    /\ fault'  = [fault  EXCEPT ![t] = e]
    /\ result' = [result EXCEPT ![t] = VNone]
    /\ pc'     = [pc     EXCEPT ![t] = "done"]

\* cursor.execute begins: psycopg2 runs one statement at a time on a connection,
\* a second thread's execute waits until the first has its answer
Execute(t, next) ==
    /\ connOwner = 0
    /\ connOwner' = t
    /\ io' = [io EXCEPT ![t] = Append(@, "execute")]
    /\ pc' = [pc EXCEPT ![t] = next]
    /\ UNCHANGED <<inventory, txStatus, call, qtext, sql, params, fault, result>>

\* The server's verdict on a statement: in a transaction that has failed every
\* statement is refused until a rollback, and rag.py never rolls back or commits
ServerError(rejected) ==
    IF txStatus = "inerror" THEN "InFailedSqlTransaction"
    ELSE IF rejected THEN "SyntaxError"
    ELSE ""

\* similarity_search, native=False: self.store.similarity_search(query, k=k, filter=filter),
\* langchain's own embedding call and session
SimilarityStore(t) ==
    /\ pc[t] = "sim_store"
    /\ \E ok \in BOOLEAN, rows \in SimilarityRows(call[t].filter, call[t].k, EmbedQuery(qtext[t])) :
          /\ io' = [io EXCEPT ![t] = Append(@, "store")]
          /\ IF ok
             THEN /\ result' = [result EXCEPT ![t] = Docs(Documents(rows))]
                  /\ pc' = [pc EXCEPT ![t] = "done"]
                  /\ UNCHANGED fault
             ELSE Swallow(t, "StoreError")
    /\ UNCHANGED <<inventory, txStatus, connOwner, call, qtext, sql, params>>

\* embedding = embed_query(query); filter_clause = build_filter_query(filter); query_sql = ...
SimilarityEmbed(t) ==
    /\ pc[t] = "sim_embed"
    /\ \E ok \in BOOLEAN :
          /\ io' = [io EXCEPT ![t] = Append(@, "embed")]
          /\ IF ok
             THEN /\ sql' = [sql EXCEPT ![t] =
                        SimilaritySql(build_filter_query(call[t].filter), call[t].k)]
                  /\ params' = [params EXCEPT ![t] = <<COLLECTION_ID, EmbedQuery(qtext[t])>>]
                  /\ pc' = [pc EXCEPT ![t] = "sim_exec"]
                  /\ UNCHANGED <<fault, result>>
             ELSE Swallow(t, "EmbeddingError") /\ UNCHANGED <<sql, params>>
    /\ UNCHANGED <<inventory, txStatus, connOwner, call, qtext>>

SimilarityExecute(t) == pc[t] = "sim_exec" /\ Execute(t, "sim_fetch")

\* results = cur.fetchall(); return [Document(...) for row in results]
SimilarityFetch(t) ==
    /\ pc[t] = "sim_fetch" /\ connOwner = t
    /\ connOwner' = 0
    /\ LET e == ServerError(Rejected(call[t].filter, call[t].k)) IN
       IF e # ""
       THEN txStatus' = "inerror" /\ Swallow(t, e)
       ELSE /\ txStatus' = "intrans"
            /\ \E rows \in SimilarityRows(call[t].filter, call[t].k, params[t][2]) :
                  result' = [result EXCEPT ![t] = Docs(Documents(rows))]
            /\ pc' = [pc EXCEPT ![t] = "done"]
            /\ UNCHANGED fault
    /\ UNCHANGED <<inventory, call, qtext, sql, params, io>>

\* the prints and: if not (0 <= weight <= 1): raise ValueError(...)
HybridCheck(t) ==
    /\ pc[t] = "hyb_check"
    /\ IF WeightInRange(call[t].weight)
       THEN /\ pc' = [pc EXCEPT ![t] = IF call[t].use_entities THEN "hyb_extract"
                                                             ELSE "hyb_embed"]
            /\ UNCHANGED <<fault, result>>
       ELSE Swallow(t, IF call[t].weight.tag = "float" THEN "ValueError" ELSE "TypeError")
    /\ UNCHANGED <<inventory, txStatus, connOwner, call, qtext, sql, params, io>>

\* extract_entities(query): {ent.label_: ent.text for ent in doc.ents}
extract_entities(query) == Entities(query)

\* " ".join(entities.values())
JoinValues(entities) == JoinStr([i \in 1..Len(entities) |-> entities[i][2]], " ")

\* entities = self.extract_entities(query); query = " ".join(entities.values())
HybridExtract(t) ==
    /\ pc[t] = "hyb_extract"
    /\ \E ok \in BOOLEAN :
          /\ io' = [io EXCEPT ![t] = Append(@, "extract")]
          /\ IF ok
             THEN /\ qtext' = [qtext EXCEPT ![t] = JoinValues(extract_entities(qtext[t]))]
                  /\ pc' = [pc EXCEPT ![t] = "hyb_embed"]
                  /\ UNCHANGED <<fault, result>>
             ELSE Swallow(t, "ExtractError") /\ UNCHANGED qtext
    /\ UNCHANGED <<inventory, txStatus, connOwner, call, sql, params>>

\* embedding = embed_query(query); filter_clause = build_filter_query(filter); sql = ...
HybridEmbed(t) ==
    /\ pc[t] = "hyb_embed"
    /\ \E ok \in BOOLEAN :
          /\ io' = [io EXCEPT ![t] = Append(@, "embed")]
          /\ IF ok
             THEN /\ sql' = [sql EXCEPT ![t] =
                        HybridSql(build_filter_query(call[t].filter), call[t].k, call[t].weight)]
                  /\ params' = [params EXCEPT ![t] =
                        <<qtext[t], EmbedQuery(qtext[t]), COLLECTION_ID>>]
                  /\ pc' = [pc EXCEPT ![t] = "hyb_exec"]
                  /\ UNCHANGED <<fault, result>>
             ELSE Swallow(t, "EmbeddingError") /\ UNCHANGED <<sql, params>>
    /\ UNCHANGED <<inventory, txStatus, connOwner, call, qtext>>

HybridExecute(t) == pc[t] = "hyb_exec" /\ Execute(t, "hyb_fetch")

HybridFetch(t) ==
    /\ pc[t] = "hyb_fetch" /\ connOwner = t
    /\ connOwner' = 0
    /\ LET e == ServerError(Rejected(call[t].filter, call[t].k)) IN
       IF e # ""
       THEN txStatus' = "inerror" /\ Swallow(t, e)
       ELSE /\ txStatus' = "intrans"
            /\ \E rows \in HybridRows(call[t].filter, call[t].k, params[t][1], params[t][2],
                                      call[t].weight) :
                  result' = [result EXCEPT ![t] = Docs(Documents(rows))]
            /\ pc' = [pc EXCEPT ![t] = "done"]
            /\ UNCHANGED fault
    /\ UNCHANGED <<inventory, call, qtext, sql, params, io>>

\* search_vehicle_inventory up to cur.execute(query, params)
InventoryExecute(t) ==
    /\ pc[t] = "inv_exec"
    /\ connOwner = 0
    /\ connOwner' = t
    /\ sql' = [sql EXCEPT ![t] = InventoryQuery(call[t].args)]
    /\ params' = [params EXCEPT ![t] = InventoryParams(call[t].args, call[t].context_limit)]
    /\ io' = [io EXCEPT ![t] = Append(@, "execute")]
    /\ pc' = [pc EXCEPT ![t] = "inv_fetch"]
    /\ UNCHANGED <<inventory, txStatus, call, qtext, fault, result>>

\* results = cur.fetchall() ... return {"data": data}, or return {"error": str(e)}
InventoryFetch(t) ==
    /\ pc[t] = "inv_fetch" /\ connOwner = t
    /\ connOwner' = 0
    /\ LET e == ServerError(FALSE) IN
       IF e # ""
       THEN /\ txStatus' = "inerror"
            /\ fault' = [fault EXCEPT ![t] = e]
            /\ result' = [result EXCEPT ![t] = Error(e)]
       ELSE /\ txStatus' = "intrans"
            /\ \E rows \in InventoryRows(inventory, call[t].args, call[t].context_limit) :
                  result' = [result EXCEPT ![t] =
                                Data(inventory, rows, all_columns(call[t].fields))]
            /\ UNCHANGED fault
    /\ pc' = [pc EXCEPT ![t] = "done"]
    /\ UNCHANGED <<inventory, call, qtext, sql, params, io>>

\* one step of the document searches
DocumentStep(t) ==
    \/ SimilarityStore(t)
    \/ SimilarityEmbed(t)
    \/ SimilarityExecute(t)
    \/ SimilarityFetch(t)
    \/ HybridCheck(t)
    \/ HybridExtract(t)
    \/ HybridEmbed(t)
    \/ HybridExecute(t)
    \/ HybridFetch(t)

InventoryStep(t) == InventoryExecute(t) \/ InventoryFetch(t)

\* the state after PGVectorStore() is constructed, over the table given
NoFrame == [op |-> "none"]

NoTables ==
    [contacts |-> {}, serial |-> 0,
     customers |-> {}, calls |-> {}, summaries |-> {}, sentiments |-> {}, vehicles |-> {},
     customer_seq |-> 0, call_seq |-> 0,
     appointments |-> {}]

InitWith(table) ==
    /\ inventory = table
    /\ txStatus = "idle"
    /\ connOwner = 0
    /\ pc = [t \in Threads |-> "idle"]
    /\ call = [t \in Threads |-> NoCall]
    /\ qtext = [t \in Threads |-> ""]
    /\ sql = [t \in Threads |-> ""]
    /\ params = [t \in Threads |-> << >>]
    /\ io = [t \in Threads |-> << >>]
    /\ fault = [t \in Threads |-> ""]
    /\ result = [t \in Threads |-> Pending]
    /\ index = {}
    /\ frame = [t \in Threads |-> NoFrame]

---------------------------------------------------------------------------
(* Bounds and the inputs drawn within them *)

MaxRows == 2
MaxDate == 2
MaxLimit == 3
MaxFilterLen == 2
MaxK == 3

\* rows of demo_vehicle_inventory: estimated_token_count is 0 for "Kia", 1 for
\* "Toyota", 3 with the description; date_in_stock may be NULL
RowUniverse ==
    { [make |-> m, date_in_stock |-> d] : m \in {"Kia", "Toyota"}, d \in 1..MaxDate }
    \cup { [make |-> "Toyota", description |-> "low miles", date_in_stock |-> d] :
              d \in 1..MaxDate }
    \cup { [make |-> "Kia"] }

Tables == UNION { [1..n -> RowUniverse] : n \in 0..MaxRows }

Limits == { VInt(n) : n \in 0..MaxLimit } \cup { VNone }

FilterKeys == {"type", "year"}

FilterValues ==
    { VStr("appointment"), VStr("O'Brien"), VInt(2020), VBool(TRUE),
      VList(<<VStr("appointment"), VStr("vehicle")>>), VNone,
      VDict(<< <<"$in", VList(<<VStr("vehicle")>>)>> >>) }

\* filter mappings: up to MaxFilterLen entries with distinct keys
FilterUniverse ==
    UNION { { f \in [1..n -> FilterKeys \X FilterValues] :
                \A i, j \in 1..n : i < j => f[i][1] # f[j][1] } : n \in 0..MaxFilterLen }

\* keyword arguments of search_vehicle_inventory, each left out or given
ArgValues(name) ==
    CASE name = "year"      -> { VInt(0), VInt(2020) }
      [] name = "make"      -> { VStr(""), VStr("toyota"), VStr("O'Brien") }
      [] name = "certified" -> { VBool(FALSE), VBool(TRUE) }
      [] name = "max_price" -> { VFloat(0), VFloat(250000) }

ArgNames == {"year", "make", "certified", "max_price"}

ArgsUniverse ==
    UNION { { a \in [S -> UNION { ArgValues(n) : n \in ArgNames }] :
                \A n \in S : a[n] \in ArgValues(n) } : S \in SUBSET ArgNames }

\* the table the specifications that do not draw one run over
EngineTable ==
    << [make |-> "Toyota", date_in_stock |-> 1, year |-> 2020, certified |-> TRUE,
        selling_price |-> 200000],
       [make |-> "Kia", date_in_stock |-> 2, year |-> 2021, certified |-> FALSE,
        selling_price |-> 150000] >>

---------------------------------------------------------------------------
(* Spec: request threads run the three searches concurrently *)

EngineCalls ==
    { SimilarityCall("brake", f, VInt(2), TRUE) :
        f \in { << >>, << <<"type", VStr("appointment")>> >>, << <<"type", VStr("O'Brien")>> >> } }
    \cup { SimilarityCall("brake", << >>, VInt(2), FALSE) }
    \cup { HybridCall("Toyota", << >>, VInt(2), w, e) :
              w \in {VFloat(5), VFloat(15)}, e \in BOOLEAN }
    \cup { InventoryCall(NoArgs, "", VInt(1)) }

Init == InitWith(EngineTable) /\ tables = NoTables

Next ==
    /\ \E t \in Threads :
          \/ \E c \in EngineCalls : Start(t, c)
          \/ DocumentStep(t)
          \/ InventoryStep(t)
    /\ UNCHANGED stores

Spec == Init /\ [][Next]_vars

---------------------------------------------------------------------------
(* SpecPair: thread 1 makes any call, and when it has returned thread 2 makes a
   call of the same shape: the same method, the same names, other values *)

Scalar(v) == v.tag \in {"str", "int", "float", "bool"}

SameShapeValue(v, w) == v.tag = w.tag \/ (Scalar(v) /\ Scalar(w))

SameShapeFilter(f, g) ==
    /\ Len(f) = Len(g)
    /\ \A i \in 1..Len(f) : f[i][1] = g[i][1] /\ SameShapeValue(f[i][2], g[i][2])

SameShape(c, d) ==
    /\ c.op = d.op
    /\ SameShapeFilter(c.filter, d.filter)
    /\ DOMAIN c.args = DOMAIN d.args
    /\ c.k = d.k /\ c.weight = d.weight /\ c.fields = d.fields
    /\ c.native = d.native /\ c.use_entities = d.use_entities

PairCalls ==
    { SimilarityCall("brake", f, VInt(2), TRUE) : f \in FilterUniverse }
    \cup { HybridCall("brake", f, VInt(2), VFloat(5), FALSE) : f \in FilterUniverse }
    \cup { SimilarityCall("brake", << >>, VInt(2), FALSE),
            HybridCall("Toyota", << >>, VInt(2), VFloat(5), TRUE) }
    \cup { InventoryCall(a, "", VInt(1)) : a \in ArgsUniverse }

NextPair ==
    /\ \/ \E c \in PairCalls : pc[1] = "idle" /\ Start(1, c)
       \/ \E c \in PairCalls :
             pc[1] = "done" /\ pc[2] = "idle" /\ SameShape(c, call[1]) /\ Start(2, c)
       \/ \E t \in Threads : DocumentStep(t) \/ InventoryStep(t)
    /\ UNCHANGED stores

SpecPair == Init /\ [][NextPair]_vars

---------------------------------------------------------------------------
(* SpecInventory: search_vehicle_inventory over every table within the bounds *)

InventoryCalls ==
    { InventoryCall(a, "", l) : a \in {NoArgs, [make |-> VStr("toyota")]}, l \in Limits }

InitInventory == \E table \in Tables : InitWith(table) /\ tables = NoTables

NextInventory ==
    /\ \/ \E c \in InventoryCalls : Start(1, c)
       \/ InventoryStep(1)
    /\ UNCHANGED stores

SpecInventory == InitInventory /\ [][NextInventory]_vars

---------------------------------------------------------------------------
(* SpecSearch: one request thread makes document searches one after another *)

SearchFilters ==
    { << >>,
      << <<"type", VStr("appointment")>> >>,
      << <<"type", VStr("tire")>> >>,
      << <<"type", VStr("O'Brien")>> >>,
      << <<"type", VList(<<VStr("appointment"), VStr("vehicle")>>)>> >>,
      << <<"year", VInt(2020)>> >>,
      << <<"certified", VBool(TRUE)>> >>,
      << <<"service-type", VStr("appointment")>> >>,
      << <<"type", VStr("appointment")>>, <<"year", VNone>> >> }

SearchTexts == {"brake", "Toyota"}

SearchWeights == { VFloat(0), VFloat(5), VFloat(10) }

SearchCalls ==
    { SimilarityCall(q, f, VInt(k), TRUE) : q \in SearchTexts, f \in SearchFilters, k \in 0..MaxK }
    \cup { HybridCall(q, f, VInt(k), w, e) :
              q \in SearchTexts, f \in SearchFilters, k \in 0..MaxK,
              w \in SearchWeights, e \in BOOLEAN }
    \cup { SimilarityCall("brake", << >>, VInt(2), FALSE) }

NextSearch ==
    /\ \/ \E c \in SearchCalls : Start(1, c)
       \/ DocumentStep(1)
    /\ UNCHANGED stores

SpecSearch == Init /\ [][NextSearch]_vars

---------------------------------------------------------------------------
(* SpecFields: search_vehicle_inventory with extra fields listed, over every table
   within the bounds *)

FieldLists == {"", "description", "date_in_stock, description", " options ,colour"}

FieldCalls == { InventoryCall(NoArgs, f, VInt(MaxLimit)) : f \in FieldLists }

NextFields ==
    /\ \/ \E c \in FieldCalls : Start(1, c)
       \/ InventoryStep(1)
    /\ UNCHANGED stores

SpecFields == InitInventory /\ [][NextFields]_vars

---------------------------------------------------------------------------
(* Properties *)

DocumentOps == {"similarity_search", "hybrid_search"}

SeqToSet(s) == { s[i] : i \in 1..Len(s) }

\* thread t has returned from search_vehicle_inventory with {"data": ...}
ReturnedData(t) ==
    pc[t] = "done" /\ call[t].op = "search_vehicle_inventory" /\ result[t].tag = "data"

\* failures of a collaborator during the call itself: the embedding provider,
\* the entity extractor, langchain's store
CollaboratorFaults == {"EmbeddingError", "ExtractError", "StoreError"}

\* a strictly earlier than b in ascending date_in_stock order
DateBefore(a, b) == DateLE(a, b) /\ ~DateLE(b, a)

\* C1: the rows search_vehicle_inventory returns for a limit L >= 0 cost at most L
\* in total and are the maximal prefix of the filtered rows in ascending
\* date_in_stock order: when a filtered row is left out, a row that comes next in
\* that order would push the total above L.
C1_MaximalPrefixWithinLimit ==
    \A t \in Threads :
        (ReturnedData(t) /\ call[t].context_limit.tag = "int") =>
            LET F    == Filtered(inventory, call[t].args)
                R    == SeqToSet(result[t].rows)
                out  == F \ R
                next == { j \in out : \A m \in out : DateLE(inventory[j], inventory[m]) }
                L    == call[t].context_limit.val
            IN  /\ SumCost(inventory, R) <= L
                /\ \A i \in R, j \in out : ~DateBefore(inventory[j], inventory[i])
                /\ out # {} =>
                      \E j \in next :
                          SumCost(inventory, R) + estimated_token_count(inventory[j]) > L

\* C8: search_vehicle_inventory with context_limit = 0 returns an empty data list,
\* not an error, whatever the table and the filters.
C8_ZeroLimitReturnsNothing ==
    \A t \in Threads :
        (pc[t] = "done" /\ call[t].op = "search_vehicle_inventory"
            /\ call[t].context_limit = VInt(0)) =>
            result[t].tag = "data" /\ Len(result[t].val) = 0

\* C9: the rows search_vehicle_inventory returns are in ascending date_in_stock
\* order, and a row is returned only if every filtered row that precedes it in
\* that order is returned too.
C9_PrefixInDateOrder ==
    \A t \in Threads :
        ReturnedData(t) =>
            LET F    == Filtered(inventory, call[t].args)
                rows == result[t].rows
            IN  /\ SeqToSet(rows) \subseteq F
                /\ \A i, j \in 1..Len(rows) :
                      i < j => rows[i] # rows[j] /\ DateLE(inventory[rows[i]], inventory[rows[j]])
                /\ \A i \in SeqToSet(rows), j \in F :
                      DateBefore(inventory[j], inventory[i]) => j \in SeqToSet(rows)

\* C9 happens: a call returned some of the filtered rows and left a later one out
C9_Truncated ==
    \E t \in Threads :
        /\ ReturnedData(t)
        /\ Len(result[t].rows) > 0
        /\ \E j \in Filtered(inventory, call[t].args) : j \notin SeqToSet(result[t].rows)

\* C3: two calls of search_vehicle_inventory that supply the same parameters send
\* the same query text, whatever the values, and no value is part of the text.
C3_QueryTextFixedBySuppliedNames ==
    \A t, u \in Threads :
        (/\ call[t].op = "search_vehicle_inventory" /\ sql[t] # ""
         /\ call[u].op = "search_vehicle_inventory" /\ sql[u] # ""
         /\ DOMAIN call[t].args = DOMAIN call[u].args) =>
            sql[t] = sql[u] /\ ~HasQuote(sql[t])

\* C2: two native similarity_search or hybrid_search calls whose filters have the
\* same field names and value shapes send the same query text, whatever the values.
C2_FilterTextFixedByShape ==
    \A t, u \in Threads :
        (/\ call[t].op \in DocumentOps /\ call[t].op = call[u].op
         /\ sql[t] # "" /\ sql[u] # ""
         /\ call[t].k = call[u].k /\ call[t].weight = call[u].weight
         /\ SameShapeFilter(call[t].filter, call[u].filter)) =>
            sql[t] = sql[u]

\* what an entry of a filter mapping asks of a document's metadata
EntryHolds(metadata, key, value) ==
    CASE Scalar(value)      -> key \in DOMAIN metadata /\ JsonText(metadata[key]) = PyStr(value)
      [] value.tag = "list" -> key \in DOMAIN metadata
                                  /\ JsonText(metadata[key]) \in ListTexts(value.val)
      [] value.tag = "none" -> key \notin DOMAIN metadata
      [] OTHER              -> FALSE

\* C10: a native similarity_search or hybrid_search call either fails with an
\* error or returns only documents that satisfy every entry of its filter.
C10_EveryEntryEnforced ==
    \A t \in Threads :
        (pc[t] = "done" /\ call[t].op \in DocumentOps /\ call[t].native
            /\ result[t].tag = "docs") =>
            \A n \in 1..Len(result[t].val), i \in 1..Len(call[t].filter) :
                EntryHolds(result[t].val[n].metadata, call[t].filter[i][1], call[t].filter[i][2])

\* C4: a similarity_search or hybrid_search call in which the embedding call or
\* the database query failed ends by raising an error to its caller.
C4_FailureRaised ==
    \A t \in Threads :
        (pc[t] = "done" /\ call[t].op \in DocumentOps
            /\ fault[t] \in {"EmbeddingError", "StoreError", "SyntaxError",
                             "InFailedSqlTransaction"}) =>
            result[t].tag = "raise"

\* C5: hybrid_search with a weight outside [0, 1] ends by raising an error to its
\* caller, having done no entity extraction, embedding request or SQL execution.
C5_BadWeightRaisedBeforeIO ==
    \A t \in Threads :
        (pc[t] = "done" /\ call[t].op = "hybrid_search" /\ ~WeightInRange(call[t].weight)) =>
            result[t].tag = "raise" /\ io[t] = << >>

\* what call c returns on a PGVectorStore that has served no call before, when no
\* collaborator fails during it
FreshResults(c) ==
    CASE c.op = "similarity_search" ->
            IF c.native /\ Rejected(c.filter, c.k) THEN { VNone }
            ELSE { Docs(Documents(r)) : r \in SimilarityRows(c.filter, c.k, EmbedQuery(c.query)) }
      [] c.op = "hybrid_search" ->
            LET text == IF c.use_entities THEN JoinValues(extract_entities(c.query))
                        ELSE c.query IN
            IF ~WeightInRange(c.weight) \/ Rejected(c.filter, c.k) THEN { VNone }
            ELSE { Docs(Documents(r)) :
                     r \in HybridRows(c.filter, c.k, text, EmbedQuery(text), c.weight) }
      [] OTHER ->
            { Data(inventory, r, all_columns(c.fields)) :
                r \in InventoryRows(inventory, c.args, c.context_limit) }

\* thread t has returned from a call during which no collaborator failed
Returned(t) == pc[t] = "done" /\ fault[t] \notin CollaboratorFaults

\* C6: against the unchanged store a call returns what it returns on a fresh
\* PGVectorStore, whatever calls ran before it on the same instance.
C6_ResultIndependentOfEarlierCalls ==
    \A t \in Threads : Returned(t) => result[t] \in FreshResults(call[t])

\* C7: of two requests running concurrently each returns what it returns when run
\* alone, and neither waits for the connection while the other holds it.
C7_ConcurrentRequestsIndependent ==
    /\ \A t \in Threads : Returned(t) /\ result[t].tag # "error" =>
            result[t] \in FreshResults(call[t])
    /\ \A t, u \in Threads :
            t # u => ~(pc[t] \in {"sim_exec", "hyb_exec", "inv_exec"} /\ connOwner = u)

---------------------------------------------------------------------------
(* Properties of the document searches *)

\* thread t has returned a list of documents from the native path of op
Succeeded(t, op) ==
    pc[t] = "done" /\ call[t].op = op /\ call[t].native /\ result[t].tag = "docs"

\* the set of documents in the list a call returned
ResultSet(t) == { result[t].val[n] : n \in 1..Len(result[t].val) }

\* two scalar values are the same value of the same type
SameValue(v, w) == v.tag = w.tag /\ v.val = w.val

\* a metadata object satisfies a filter entry: the field equals the value of a
\* scalar entry, is one of the values of a list entry, is absent for null
Matches(metadata, key, value) ==
    CASE Scalar(value)      -> key \in DOMAIN metadata /\ SameValue(metadata[key], value)
      [] value.tag = "list" -> key \in DOMAIN metadata
                                  /\ \E j \in 1..Len(value.val) :
                                        SameValue(metadata[key], value.val[j])
      [] value.tag = "none" -> key \notin DOMAIN metadata
      [] OTHER              -> FALSE

\* the documents of the collection whose metadata satisfies every entry
Eligible(filter_dict) ==
    { row \in Corpus :
        /\ row.collection_id = COLLECTION_ID
        /\ \A i \in 1..Len(filter_dict) :
              Matches(row.cmetadata, filter_dict[i][1], filter_dict[i][2]) }

\* every entry of the filter is a scalar or a list
PlainFilter(filter_dict) ==
    \A i \in 1..Len(filter_dict) :
        Scalar(filter_dict[i][2]) \/ filter_dict[i][2].tag = "list"

\* C11: a native similarity_search or hybrid_search call with a filter of scalar
\* and list entries returns only documents of the collection whose metadata
\* satisfies every entry, and all of them when k is not smaller than their number.
C11_FilterSelectsExactly ==
    \A t \in Threads, op \in DocumentOps :
        (Succeeded(t, op) /\ PlainFilter(call[t].filter)) =>
            LET E == { Document(row) : row \in Eligible(call[t].filter) } IN
            /\ ResultSet(t) \subseteq E
            /\ call[t].k.val >= Cardinality(E) => ResultSet(t) = E

\* the characters a field name may be made of
NameChars == "ABCDEFGHIJKLMNOPQRSTUVWXYZabcdefghijklmnopqrstuvwxyz0123456789_"

ValidName(key) ==
    \A i \in 1..Len(key) :
        \E j \in 1..Len(NameChars) : SubSeq(key, i, i) = SubSeq(NameChars, j, j)

InvalidFilter(filter_dict) ==
    \E i \in 1..Len(filter_dict) : ~ValidName(filter_dict[i][1])

\* C12: a native similarity_search or hybrid_search call whose filter has a field
\* name with a character outside A-Z, a-z, 0-9 and _ executes no statement and,
\* unless a collaborator failed first, ends by raising an invalid-filter error.
C12_BadFieldNameRejected ==
    \A t \in Threads :
        (call[t].op \in DocumentOps /\ call[t].native /\ InvalidFilter(call[t].filter)) =>
            /\ \A n \in 1..Len(io[t]) : io[t][n] # "execute"
            /\ (pc[t] = "done" /\ fault[t] \notin CollaboratorFaults) => result[t].tag = "raise"

---------------------------------------------------------------------------
(* Properties of the inventory filters *)

\* the links of the if-chain for the parameters the caller supplied
Supplied(args) == { n \in 1..Len(FilterChain) : FilterChain[n].name \in DOMAIN args }

\* the rows that satisfy the predicate of every supplied parameter
EligibleRows(table, args) ==
    { i \in 1..Len(table) :
        \A n \in Supplied(args) : ClauseHolds(FilterChain[n], args, table[i]) }

\* C13: search_vehicle_inventory returns only rows that satisfy the predicate of
\* every parameter the caller supplied, and all of them when the limit admits the
\* whole table.
C13_EverySuppliedFilterApplied ==
    \A t \in Threads :
        (ReturnedData(t) /\ call[t].context_limit.tag = "int") =>
            LET E == EligibleRows(inventory, call[t].args)
                R == SeqToSet(result[t].rows)
            IN  /\ R \subseteq E
                /\ SumCost(inventory, 1..Len(inventory)) <= call[t].context_limit.val => R = E

---------------------------------------------------------------------------
(* Properties of hybrid_search *)

\* what the call c returns when made with use_entities false, on a working
\* connection
WithoutEntities(c) ==
    { Docs(Documents(r)) :
        r \in HybridRows(c.filter, c.k, c.query, EmbedQuery(c.query), c.weight) }

\* thread t is in hybrid_search past the entity extraction, which did not fail
PastExtraction(t) ==
    /\ call[t].op = "hybrid_search" /\ call[t].use_entities
    /\ pc[t] \in {"hyb_embed", "hyb_exec", "hyb_fetch", "done"}
    /\ \E n \in 1..Len(io[t]) : io[t][n] = "extract"
    /\ fault[t] # "ExtractError"

\* C14: when entity extraction finds no entities, hybrid_search with use_entities
\* goes on with the caller's query text, which is empty only if the caller's was,
\* and returns what the call with use_entities false returns.
C14_NoEntitiesFallsBack ==
    \A t \in Threads :
        (PastExtraction(t) /\ extract_entities(call[t].query) = << >>) =>
            /\ qtext[t] = call[t].query
            /\ (pc[t] = "done" /\ result[t].tag = "docs") => result[t] \in WithoutEntities(call[t])

\* C15: when entity extraction fails, hybrid_search with use_entities returns what
\* the call with use_entities false returns.
C15_ExtractorFailureDegrades ==
    \A t \in Threads :
        (pc[t] = "done" /\ call[t].op = "hybrid_search" /\ fault[t] = "ExtractError"
            /\ txStatus # "inerror" /\ ~Rejected(call[t].filter, call[t].k)) =>
            result[t] \in WithoutEntities(call[t])

\* the lists a query ordered by the full-text rank alone may return
TextRankRows(filter_dict, k, text) ==
    LET S == Selected(filter_dict) IN
    { Take(s, k.val) :
        s \in Orderings(S, { p \in S \X S : TsRankCd(p[1], text) >= TsRankCd(p[2], text) }) }

\* C16: hybrid_search with weight 1 returns a list that native similarity_search
\* returns for the same query, filter and k, and with weight 0 a list that a query
\* ordered by the full-text rank alone returns.
C16_ExtremeWeightsReduce ==
    \A t \in Threads :
        (Succeeded(t, "hybrid_search") /\ ~call[t].use_entities) =>
            LET c == call[t] IN
            /\ c.weight = VFloat(10) =>
                  result[t] \in { Docs(Documents(r)) :
                                    r \in SimilarityRows(c.filter, c.k, EmbedQuery(c.query)) }
            /\ c.weight = VFloat(0) =>
                  result[t] \in { Docs(Documents(r)) :
                                    r \in TextRankRows(c.filter, c.k, c.query) }

\* C16 happens: a weight-1 search returned two documents or more
C16_VectorOnlyRanked ==
    \E t \in Threads :
        /\ Succeeded(t, "hybrid_search") /\ ~call[t].use_entities
        /\ call[t].weight = VFloat(10)
        /\ Len(result[t].val) >= 2

\* the row of the collection a returned document was made from
RowOf(doc) == CHOOSE row \in Corpus : row.collection_id = COLLECTION_ID /\ Document(row) = doc

\* row a comes before row b in the order of the fused score, ties by distance
FusedBefore(a, b, text, embedding, weight) ==
    \/ HybridScore(a, text, embedding, weight) > HybridScore(b, text, embedding, weight)
    \/ /\ HybridScore(a, text, embedding, weight) = HybridScore(b, text, embedding, weight)
       /\ Distance(a, embedding) <= Distance(b, embedding)

\* C17: hybrid_search returns its documents in descending order of fused score,
\* equal scores in ascending order of distance, and leaves out no candidate that
\* comes before a returned one in that order.
C17_TiesBrokenByDistance ==
    \A t \in Threads :
        Succeeded(t, "hybrid_search") =>
            LET docs == result[t].val
                text == params[t][1]
                emb  == params[t][2]
                w    == call[t].weight
                R    == { RowOf(docs[n]) : n \in 1..Len(docs) }
            IN  /\ \A i, j \in 1..Len(docs) :
                      i < j => FusedBefore(RowOf(docs[i]), RowOf(docs[j]), text, emb, w)
                /\ \A a \in R, b \in Selected(call[t].filter) \ R :
                      FusedBefore(a, b, text, emb, w)

\* C18: for every candidate of a hybrid_search with a weight in [0, 1] the
\* full-text score, the vector score and the fused score lie in [0, 1].
C18_ScoresNormalised ==
    \A t \in Threads :
        (call[t].op = "hybrid_search" /\ pc[t] \in {"hyb_exec", "hyb_fetch", "done"}
            /\ sql[t] # "" /\ WeightInRange(call[t].weight)) =>
            \A row \in Selected(call[t].filter) :
                /\ TsRankCd(row, params[t][1]) \in 0..10
                /\ (10 - Distance(row, params[t][2])) \in 0..10
                /\ HybridScore(row, params[t][1], params[t][2], call[t].weight) \in 0..100

---------------------------------------------------------------------------
(* Properties of similarity_search *)

\* C19: native similarity_search returns at most k documents, each a document of
\* the collection that satisfies the filter, in ascending order of distance to the
\* query embedding; no eligible document left out is closer than a returned one,
\* and when at most k documents are eligible all of them are returned.
C19_NearestEligibleInOrder ==
    \A t \in Threads :
        Succeeded(t, "similarity_search") =>
            LET docs == result[t].val
                emb  == params[t][2]
                E    == Eligible(call[t].filter)
                R    == { RowOf(docs[n]) : n \in 1..Len(docs) }
            IN  /\ Len(docs) <= call[t].k.val
                /\ R \subseteq E
                /\ \A i, j \in 1..Len(docs) :
                      i < j => /\ docs[i] # docs[j]
                               /\ Distance(RowOf(docs[i]), emb) <= Distance(RowOf(docs[j]), emb)
                /\ \A a \in R, b \in E \ R : Distance(a, emb) <= Distance(b, emb)
                /\ Cardinality(E) <= call[t].k.val => R = E

\* C20: native similarity_search with k = 0, or with a filter that no document of
\* the collection satisfies, returns the empty list, unless a collaborator failed
\* during the call.
C20_NothingEligibleReturnsEmpty ==
    \A t \in Threads :
        (pc[t] = "done" /\ call[t].op = "similarity_search" /\ call[t].native
            /\ fault[t] \notin CollaboratorFaults
            /\ (call[t].k = VInt(0) \/ Eligible(call[t].filter) = {})) =>
            result[t] = Docs(<< >>)

---------------------------------------------------------------------------
(* Properties of the inventory window and projection *)

\* C21: search_vehicle_inventory called with no limit, or with a limit that is at
\* least the total estimated cost of the rows matching the filters, returns every
\* row that matches the filters.
C21_AmpleBudgetReturnsAll ==
    \A t \in Threads :
        ReturnedData(t) =>
            LET E == EligibleRows(inventory, call[t].args)
                L == call[t].context_limit
            IN  (L = VNone \/ (L.tag = "int" /\ L.val >= SumCost(inventory, E))) =>
                    E \subseteq SeqToSet(result[t].rows)

\* the names the caller listed in fields
Listed(fields) == SeqToSet(all_columns(fields)) \ SeqToSet(default_columns)

\* C22: every row search_vehicle_inventory returns has keys only from the default
\* columns and the names listed in fields, has every listed name that is a column
\* of the table, and the query text is the one built from the filters alone.
C22_ProjectionWithinColumns ==
    \A t \in Threads :
        /\ ReturnedData(t) =>
              \A n \in 1..Len(result[t].val) :
                  LET keys == DOMAIN result[t].val[n] IN
                  /\ keys \subseteq SeqToSet(default_columns) \cup Listed(call[t].fields)
                  /\ Listed(call[t].fields) \cap SeqToSet(SelectColumns) \subseteq keys
        /\ (call[t].op = "search_vehicle_inventory" /\ sql[t] # "") =>
              sql[t] = InventoryQuery(call[t].args)

\* C22 happens: a row came back with a listed column and without an unlisted one
C22_ListedColumnReturned ==
    \E t \in Threads :
        /\ ReturnedData(t) /\ call[t].fields = "description"
        /\ Len(result[t].val) > 0
        /\ "description" \in DOMAIN result[t].val[1]
        /\ "date_in_stock" \notin DOMAIN result[t].val[1]

(***************************************************************************)
(* PGVectorStore.add_documents: one store call per document, each in its   *)
(* own try.  The store call is langchain_postgres' PGVector.add_documents  *)
(* with an explicit id, an INSERT ... ON CONFLICT (id) DO UPDATE committed *)
(* in a session of its own.                                                *)
(***************************************************************************)
MaxBatch == 2

NoId == "<no id>"

DocIds == {"d1", "d2"}

DocContents == {"a", "b"}

\* a langchain Document, reduced to page_content and metadata.get("id")
InputDocs == [id : DocIds \cup {NoId}, content : DocContents]

Batches == UNION { [1..n -> InputDocs] : n \in 0..MaxBatch }

AddCall(batch) == [op |-> "add_documents", query |-> "", docs |-> batch]

InsertOnly(idx, doc) == idx \cup {doc}

\* ids=[doc.metadata["id"]]: the row with that id is replaced, or inserted
Upsert(idx, doc) == { r \in idx : r.id # doc.id } \cup {doc}

AddDocumentStopping(t) ==
    LET i   == Len(io[t]) + 1
        doc == call[t].docs[i]
    IN  /\ pc[t] = "add_loop"
        /\ i <= Len(call[t].docs)
        /\ \/ /\ doc.id = NoId
              /\ io' = [io EXCEPT ![t] = Append(@, "KeyError")]
              /\ pc' = [pc EXCEPT ![t] = "done"]
              /\ result' = [result EXCEPT ![t] = VNone]
              /\ UNCHANGED index
           \/ /\ doc.id # NoId
              /\ \/ /\ index' = Upsert(index, doc)
                    /\ io' = [io EXCEPT ![t] = Append(@, "added")]
                    /\ UNCHANGED <<pc, result>>
                 \/ /\ io' = [io EXCEPT ![t] = Append(@, "StoreError")]
                    /\ pc' = [pc EXCEPT ![t] = "done"]
                    /\ result' = [result EXCEPT ![t] = VNone]
                    /\ UNCHANGED index
        /\ UNCHANGED <<engine, call, fault, frame, tables>>

\* one iteration of the loop: metadata["id"] raises KeyError inside the try, the
\* store call (embedding, INSERT) may raise; either is printed and the loop goes on
AddDocument(t) ==
    LET i   == Len(io[t]) + 1
        doc == call[t].docs[i]
    IN  /\ pc[t] = "add_loop"
        /\ i <= Len(call[t].docs)
        /\ \/ /\ doc.id = NoId
              /\ io' = [io EXCEPT ![t] = Append(@, "KeyError")]
              /\ UNCHANGED index
           \/ /\ doc.id # NoId
              /\ \/ /\ index' = Upsert(index, doc)
                    /\ io' = [io EXCEPT ![t] = Append(@, "added")]
                 \/ /\ io' = [io EXCEPT ![t] = Append(@, "StoreError")]
                    /\ UNCHANGED index
        /\ UNCHANGED <<engine, pc, call, fault, result, frame, tables>>

\* the loop is exhausted: the function falls off its end and returns None
AddReturn(t) ==
    /\ pc[t] = "add_loop"
    /\ Len(io[t]) = Len(call[t].docs)
    /\ pc' = [pc EXCEPT ![t] = "done"]
    /\ result' = [result EXCEPT ![t] = VNone]
    /\ UNCHANGED <<engine, call, io, fault, index, frame, tables>>

NextIngest ==
    \/ \E b \in Batches : Start(1, AddCall(b)) /\ UNCHANGED stores
    \/ AddDocument(1)
    \/ AddReturn(1)

SpecIngest == Init /\ [][NextIngest]_vars

AddDone(t) == pc[t] = "done" /\ call[t].op = "add_documents"

\* the positions of the batch whose own add succeeded
Added(t) == { i \in 1..Len(io[t]) : io[t][i] = "added" }

\* C23: when add_documents has returned, every document of the batch was
\* attempted, and every document whose own add succeeded has a row under its
\* id in the index, whether a failing document came before or after it.
C23_PartialFailureTolerated ==
    AddDone(1) =>
        /\ Len(io[1]) = Len(call[1].docs)
        /\ \A i \in Added(1) : \E r \in index : r.id = call[1].docs[i].id

C23_SuccessAfterFailure ==
    /\ AddDone(1)
    /\ Len(io[1]) = 2
    /\ io[1][1] # "added"
    /\ io[1][2] = "added"
    /\ call[1].docs[2] \in index

\* C24: add_documents reports one outcome per input document, so a document
\* that was not added is reported as failed.
C24_OutcomePerDocument ==
    (AddDone(1) /\ Added(1) # 1..Len(call[1].docs)) =>
        /\ result[1].tag = "list"
        /\ Len(result[1].val) = Len(call[1].docs)
        /\ \A i \in 1..Len(call[1].docs) :
              result[1].val[i] = VBool(io[1][i] = "added")

\* the last position of the batch that wrote a row under the id
LastAdded(t, id) ==
    LET S == { i \in Added(t) : call[t].docs[i].id = id }
    IN  CHOOSE i \in S : \A j \in S : j <= i

RepeatedAdd ==
    /\ call[1].op = "add_documents"
    /\ pc[1] = "add_loop"
    /\ Len(io[1]) < Len(call[1].docs)
    /\ call[1].docs[Len(io[1]) + 1] \in index
    /\ io'[1] = Append(io[1], "added")

\* C25: the index never holds two rows with one id; a row whose id the
\* running call has added carries the content of the latest of those adds;
\* and adding a document that is already in the index, same id and same
\* content, leaves the index as it was.
C25_IdempotentUpsert ==
    /\ [](\A r1, r2 \in index : r1.id = r2.id => r1 = r2)
    /\ [](call[1].op = "add_documents" =>
            \A i \in Added(1) :
                call[1].docs[LastAdded(1, call[1].docs[i].id)] \in index)
    /\ [][RepeatedAdd => index' = index]_vars

C25_SameIdAddedTwice ==
    /\ AddDone(1)
    /\ Added(1) = {1, 2}
    /\ call[1].docs[1].id = call[1].docs[2].id
    /\ call[1].docs[1].content # call[1].docs[2].content
    /\ index = {call[1].docs[2]}

(***************************************************************************)
(* POST /vector-info after the retrieval: rerank, join, answer.            *)
(***************************************************************************)
MaxRetrieved == 2

\* an exception that leaves the call
Raised(ex) == [tag |-> "raised", val |-> ex]

\* page_content of the documents a search can give back
RetrievedTexts == { row.document : row \in Corpus }

Retrievals == UNION { [1..n -> RetrievedTexts] : n \in 0..MaxRetrieved }

VectorInfoCall(texts, doRerank, contentOnly) ==
    [op |-> "get_vector_info", query |-> "brake", retrieved |-> texts,
     doRerank |-> doRerank, contentOnly |-> contentOnly]

VectorInfoCalls ==
    { VectorInfoCall(r, d, c) : r \in Retrievals, d \in BOOLEAN, c \in BOOLEAN }

\* the orders a reranker can give the texts back in
Reorderings(texts) ==
    { [i \in 1..Len(texts) |-> texts[f[i]]] :
        f \in { g \in [1..Len(texts) -> 1..Len(texts)] :
                  \A i, j \in 1..Len(texts) : g[i] = g[j] => i = j } }

RECURSIVE Information(_, _)
\* "\n\n Car Profile:".join(f"{idx} {text}" for idx, text in enumerate(texts))
Information(texts, idx) ==
    IF texts = << >> THEN ""
    ELSE ToString(idx) \o " " \o Head(texts) \o
         (IF Len(texts) = 1 THEN ""
          ELSE "\n\n Car Profile:" \o Information(Tail(texts), idx + 1))

\* Utils.get_ranked_documents: [] for no texts, else Reranker("cohere", ...).rank;
\* building the ranker or ranking can raise, and nothing catches it.  The
\* outcomes as <<exception or "", ranked texts>>.
get_ranked_documents(texts) ==
    IF texts = << >> THEN { <<"", << >>>> }
    ELSE { <<"", r>> : r \in Reorderings(texts) } \cup { <<"RerankError", << >>>> }

\* retrieved_texts, then the rerank when doRerank is set
VectorInfoRerank(t) ==
    LET texts == call[t].retrieved
    IN  /\ pc[t] = "vi_rerank"
        /\ IF call[t].doRerank
           THEN \E out \in get_ranked_documents(texts) :
                  IF out[1] # ""
                  THEN /\ io' = [io EXCEPT ![t] = Append(@, "rank")]
                       /\ fault' = [fault EXCEPT ![t] = out[1]]
                       /\ result' = [result EXCEPT ![t] = Raised(out[1])]
                       /\ pc' = [pc EXCEPT ![t] = "done"]
                       /\ UNCHANGED frame
                  ELSE /\ io' = [io EXCEPT ![t] = Append(@, "rank")]
                       /\ frame' = [frame EXCEPT ![t] =
                                      [op |-> "get_vector_info", texts |-> out[2]]]
                       /\ pc' = [pc EXCEPT ![t] = "vi_answer"]
                       /\ UNCHANGED <<fault, result>>
           ELSE /\ frame' = [frame EXCEPT ![t] =
                               [op |-> "get_vector_info", texts |-> texts]]
                /\ pc' = [pc EXCEPT ![t] = "vi_answer"]
                /\ UNCHANGED <<io, fault, result>>
        /\ UNCHANGED <<engine, call, index, tables>>

\* information, returned as is for contentOnly, else put to the chain
VectorInfoAnswer(t) ==
    LET information == Information(frame[t].texts, 0)
    IN  /\ pc[t] = "vi_answer"
        /\ \/ /\ call[t].contentOnly
              /\ result' = [result EXCEPT ![t] = VStr(information)]
              /\ UNCHANGED <<io, fault>>
           \/ /\ ~call[t].contentOnly
              /\ io' = [io EXCEPT ![t] = Append(@, "chain")]
              /\ \/ /\ result' = [result EXCEPT ![t] = VStr("answer to: " \o information)]
                    /\ UNCHANGED fault
                 \/ /\ result' = [result EXCEPT ![t] = Raised("ChainError")]
                    /\ fault' = [fault EXCEPT ![t] = "ChainError"]
        /\ pc' = [pc EXCEPT ![t] = "done"]
        /\ UNCHANGED <<engine, call, frame, index, tables>>

NextVectorInfo ==
    \/ \E c \in VectorInfoCalls : Start(1, c) /\ UNCHANGED stores
    \/ VectorInfoRerank(1)
    \/ VectorInfoAnswer(1)

SpecVectorInfo == Init /\ [][NextVectorInfo]_vars

VectorInfoDone(t) ==
    /\ pc[t] = "done"
    /\ call[t].op = "get_vector_info"
    /\ fault[t] # "ChainError"

Answer(t, texts) ==
    IF call[t].contentOnly THEN VStr(Information(texts, 0))
    ELSE VStr("answer to: " \o Information(texts, 0))

\* C26: a /vector-info request with doRerank set whose reranker fails still
\* succeeds and answers from the retrieved texts in their retrieved order; with
\* doRerank false the reranker is not called and the retrieved order is used.
C26_RerankFailureFallsBack ==
    VectorInfoDone(1) =>
        /\ ~call[1].doRerank =>
              /\ "rank" \notin SeqToSet(io[1])
              /\ result[1] = Answer(1, call[1].retrieved)
        /\ call[1].doRerank =>
              /\ result[1].tag # "raised"
              /\ fault[1] = "RerankError" => result[1] = Answer(1, call[1].retrieved)

\* C26, the half that holds: without doRerank the reranker is left alone and
\* the answer is built from the retrieved order.
C26_NoRerankKeepsOrder ==
    (VectorInfoDone(1) /\ ~call[1].doRerank) =>
        /\ "rank" \notin SeqToSet(io[1])
        /\ result[1] = Answer(1, call[1].retrieved)

(***************************************************************************)
(* ContactInfoService.save_contact_info: SELECT by contact_number, then    *)
(* UPDATE or INSERT, on a connection of its own.  The table declares       *)
(* contact_number VARCHAR(20) NOT NULL UNIQUE.                             *)
(***************************************************************************)
ContactNumberWidth == 20

\* two numbers that fit the column and one of 21 characters
ContactNumbers == {"5550100", "5550199", "+94 (0) 70 362 521 23"}

CustomerNames == {"Ann", "Bo"}

ContactCall(name, number) ==
    [op |-> "save_contact_info", query |-> "", customer_name |-> name,
     contact_number |-> number]

ContactCalls == { ContactCall(n, c) : n \in CustomerNames, c \in ContactNumbers }

\* the uncommitted row of another transaction under this contact_number: an
\* INSERT or UPDATE of the same key waits for that transaction to end
RowLocked(t, number) ==
    \E u \in Threads \ {t} :
        /\ frame[u].op = "save_contact_info"
        /\ frame[u].pending # << >>
        /\ frame[u].pending[1].contact_number = number

\* check_query: the committed row with this contact_number, if any
ContactCheck(t) ==
    LET found == { r \in tables.contacts : r.contact_number = call[t].contact_number }
    IN  /\ pc[t] = "ct_check"
        /\ frame' = [frame EXCEPT ![t] =
                       [op |-> "save_contact_info",
                        existing |-> IF found = {} THEN << >>
                                     ELSE <<(CHOOSE r \in found : TRUE).id>>,
                        pending |-> << >>]]
        /\ pc' = [pc EXCEPT ![t] = IF found = {} THEN "ct_insert" ELSE "ct_update"]
        /\ UNCHANGED <<engine, call, io, fault, result, index, tables>>

\* update_query ... RETURNING id
ContactUpdate(t) ==
    LET number == call[t].contact_number
        row    == CHOOSE r \in tables.contacts : r.contact_number = number
    IN  /\ pc[t] = "ct_update"
        /\ ~RowLocked(t, number)
        /\ frame' = [frame EXCEPT ![t].pending =
                       <<[row EXCEPT !.customer_name = call[t].customer_name]>>]
        /\ pc' = [pc EXCEPT ![t] = "ct_commit"]
        /\ UNCHANGED <<engine, call, io, fault, result, index, tables>>

\* insert_query ... RETURNING id; psycopg2.Error -> rollback, raise
\* DatabaseConnectionException, close
ContactInsert(t) ==
    LET number == call[t].contact_number
        error  == IF Len(number) > ContactNumberWidth THEN "StringDataRightTruncation"
                  ELSE IF \E r \in tables.contacts : r.contact_number = number
                       THEN "UniqueViolation"
                  ELSE ""
    IN  /\ pc[t] = "ct_insert"
        /\ ~RowLocked(t, number)
        /\ IF error # ""
           THEN /\ fault' = [fault EXCEPT ![t] = error]
                /\ result' = [result EXCEPT ![t] = Raised("DatabaseConnectionException")]
                /\ pc' = [pc EXCEPT ![t] = "done"]
                /\ UNCHANGED <<frame, tables>>
           ELSE /\ frame' = [frame EXCEPT ![t].pending =
                               <<[id |-> tables.serial + 1,
                                  customer_name |-> call[t].customer_name,
                                  contact_number |-> number]>>]
                /\ tables' = [tables EXCEPT !.serial = @ + 1]
                /\ pc' = [pc EXCEPT ![t] = "ct_commit"]
                /\ UNCHANGED <<fault, result>>
        /\ UNCHANGED <<engine, call, io, index>>

\* conn.commit(); return str(contact_id); finally conn.close()
ContactCommit(t) ==
    LET row == frame[t].pending[1]
    IN  /\ pc[t] = "ct_commit"
        /\ tables' = [tables EXCEPT !.contacts =
                        { r \in @ : r.id # row.id } \cup {row}]
        /\ frame' = [frame EXCEPT ![t].pending = << >>]
        /\ result' = [result EXCEPT ![t] = VStr(ToString(row.id))]
        /\ pc' = [pc EXCEPT ![t] = "done"]
        /\ UNCHANGED <<engine, call, io, fault, index>>

ContactStep(t) ==
    \/ ContactCheck(t)
    \/ ContactUpdate(t)
    \/ ContactInsert(t)
    \/ ContactCommit(t)

NextContacts ==
    \E t \in Threads :
        \/ \E c \in ContactCalls : Start(t, c) /\ UNCHANGED stores
        \/ ContactStep(t)

SpecContacts == Init /\ [][NextContacts]_vars

ContactDone(t) == pc[t] = "done" /\ call[t].op = "save_contact_info"

ContactSaved(t) ==
    /\ result[t].tag = "str"
    /\ \E r \in tables.contacts :
          /\ r.contact_number = call[t].contact_number
          /\ ToString(r.id) = result[t].val

\* C27: under every interleaving of save_contact_info calls no two records
\* share a contact_number, and every finished call has returned the id of the
\* record stored under its number, whether it created or updated it.
C27_CreateOrUpdate ==
    /\ \A r1, r2 \in tables.contacts : r1.contact_number = r2.contact_number => r1 = r2
    /\ \A t \in Threads : ContactDone(t) => ContactSaved(t)

\* C27 for numbers that fit the column
C27_CreateOrUpdateShortNumbers ==
    \A t \in Threads :
        (ContactDone(t) /\ Len(call[t].contact_number) <= ContactNumberWidth)
            => ContactSaved(t)

\* C27, the part that holds: the UNIQUE constraint keeps one record per number
C27_OneRecordPerNumber ==
    \A r1, r2 \in tables.contacts : r1.contact_number = r2.contact_number => r1 = r2

(***************************************************************************)
(* Conversations: save_conversation_data writes the customer, call,        *)
(* summary, sentiment and vehicle rows on one connection;                  *)
(* get_conversation_data reads one page of the joined calls.  Both exist   *)
(* in ConversationService and in PostgresConnector, whose transaction ends *)
(* in __exit__.                                                            *)
(***************************************************************************)
MaxSaves == 2
MaxPage == 3
MaxPerPage == 2

Vias == {"service", "connector"}

PhoneNumbers == {"5550100", "5550199"}

Sids == {"CA001", "CA002"}

CreatedTimes == {1, 2}

\* vehicle_data: << >> when the caller passes none
VehicleData == {<< >>, <<"Corolla">>}

SaveCall(via, phone, name, sid, created, vehicle) ==
    [op |-> "save_conversation_data", query |-> "", via |-> via, phone_number |-> phone,
     first_name |-> name, sid |-> sid, created_time |-> created, vehicle_data |-> vehicle]

\* created_time is stored as given and read by no statement of the save
SaveCalls ==
    { SaveCall(via, ph, n, sid, 1, v) :
        via \in Vias, ph \in PhoneNumbers, n \in CustomerNames, sid \in Sids,
        v \in VehicleData }

GetCall(via, page, per_page) ==
    [op |-> "get_conversation_data", query |-> "", via |-> via, page |-> page,
     per_page |-> per_page]

GetCalls == { GetCall(via, p, n) : via \in Vias, p \in 1..MaxPage, n \in 1..MaxPerPage }

\* the rows of the five tables, without the sequences
Rows(tb) ==
    [customers |-> tb.customers, calls |-> tb.calls, summaries |-> tb.summaries,
     sentiments |-> tb.sentiments, vehicles |-> tb.vehicles]

\* self.db_client.connect() / PostgresConnector.__enter__: a connection of its
\* own, whose transaction sees the committed rows
SaveConnect(t) ==
    /\ pc[t] = "sv_connect"
    /\ tables.customer_seq < MaxSaves
    /\ frame' = [frame EXCEPT ![t] =
                   [op |-> "save_conversation_data", conn |-> "open",
                    tx |-> Rows(tables), before |-> Rows(tables),
                    customer_id |-> 0, call_id |-> 0]]
    /\ pc' = [pc EXCEPT ![t] = "sv_customer"]
    /\ UNCHANGED <<engine, call, io, fault, result, index, tables>>

SaveRaiseCommitting(t, error, ex) ==
    /\ fault' = [fault EXCEPT ![t] = error]
    /\ result' = [result EXCEPT ![t] = Raised(ex)]
    /\ frame' = [frame EXCEPT ![t].conn = "closed"]
    /\ pc' = [pc EXCEPT ![t] = "done"]
    /\ tables' = [tables EXCEPT !.customers = frame[t].tx.customers]

\* the except clauses and finally of the service, or the exception leaving the
\* with block of the connector into __exit__: rollback, close, raise
SaveRaise(t, error, ex) ==
    /\ fault' = [fault EXCEPT ![t] = error]
    /\ result' = [result EXCEPT ![t] = Raised(ex)]
    /\ frame' = [frame EXCEPT ![t].conn = "closed"]
    /\ pc' = [pc EXCEPT ![t] = "done"]
    /\ UNCHANGED tables

\* what each implementation raises for a database error
SaveException(t, error) ==
    IF call[t].via = "service"
    THEN IF error = "UniqueViolation" THEN "ConversationAlreadyExistsException"
         ELSE "DatabaseConnectionException"
    ELSE IF error = "UniqueViolation" THEN "ConversationAlreadyExistsException"
         ELSE "ConversationException"

\* a statement that the server or the network fails
SaveBroken(t) ==
    /\ pc[t] \in {"sv_customer", "sv_call", "sv_summary", "sv_sentiment", "sv_vehicle"}
    /\ SaveRaise(t, "OperationalError", SaveException(t, "OperationalError"))
    /\ UNCHANGED <<engine, call, io, index>>

\* sql_customer: INSERT ... ON CONFLICT (phone_number) DO UPDATE ... RETURNING customer_id
SaveCustomer(t) ==
    LET tx    == frame[t].tx
        found == { r \in tx.customers : r.phone_number = call[t].phone_number }
        id    == IF found = {} THEN tables.customer_seq + 1
                 ELSE (CHOOSE r \in found : TRUE).customer_id
        row   == [customer_id |-> id, phone_number |-> call[t].phone_number,
                  first_name |-> call[t].first_name]
    IN  /\ pc[t] = "sv_customer"
        /\ tables' = [tables EXCEPT !.customer_seq = @ + 1]
        /\ frame' = [frame EXCEPT ![t].tx.customers = (@ \ found) \cup {row},
                                  ![t].customer_id = id]
        /\ pc' = [pc EXCEPT ![t] = "sv_call"]
        /\ UNCHANGED <<engine, call, io, fault, result, index>>

\* sql_call: INSERT INTO calls ... RETURNING call_id; sid is UNIQUE
SaveCallRow(t) ==
    LET tx == frame[t].tx
        id == tables.call_seq + 1
    IN  /\ pc[t] = "sv_call"
        /\ IF \E r \in tx.calls : r.sid = call[t].sid
           THEN /\ SaveRaise(t, "UniqueViolation", SaveException(t, "UniqueViolation"))
                /\ UNCHANGED <<engine, call, io, index>>
           ELSE /\ tables' = [tables EXCEPT !.call_seq = id]
                /\ frame' = [frame EXCEPT
                               ![t].tx.calls = @ \cup
                                   {[call_id |-> id, customer_id |-> frame[t].customer_id,
                                     sid |-> call[t].sid,
                                     created_time |-> call[t].created_time]},
                               ![t].call_id = id]
                /\ pc' = [pc EXCEPT ![t] =
                            IF call[t].via = "service" THEN "sv_summary" ELSE "sv_vehicle"]
                /\ UNCHANGED <<engine, call, io, fault, result, index>>

\* sql_summary
SaveSummary(t) ==
    /\ pc[t] = "sv_summary"
    /\ frame' = [frame EXCEPT ![t].tx.summaries = @ \cup {[call_id |-> frame[t].call_id]}]
    /\ pc' = [pc EXCEPT ![t] = "sv_sentiment"]
    /\ UNCHANGED <<engine, call, io, fault, result, index, tables>>

\* sql_sentiment
SaveSentiment(t) ==
    /\ pc[t] = "sv_sentiment"
    /\ frame' = [frame EXCEPT ![t].tx.sentiments = @ \cup {[call_id |-> frame[t].call_id]}]
    /\ pc' = [pc EXCEPT ![t] = "sv_vehicle"]
    /\ UNCHANGED <<engine, call, io, fault, result, index, tables>>

\* sql_vehicle: the service skips it without vehicle_data, the connector
\* dereferences vehicle_data.requirements
SaveVehicle(t) ==
    /\ pc[t] = "sv_vehicle"
    /\ IF call[t].vehicle_data # << >>
       THEN /\ frame' = [frame EXCEPT ![t].tx.vehicles = @ \cup
                           {[call_id |-> frame[t].call_id,
                             vehicle |-> call[t].vehicle_data[1]]}]
            /\ pc' = [pc EXCEPT ![t] = "sv_commit"]
            /\ UNCHANGED <<fault, result, tables>>
       ELSE IF call[t].via = "service"
       THEN /\ pc' = [pc EXCEPT ![t] = "sv_commit"]
            /\ UNCHANGED <<frame, fault, result, tables>>
       ELSE SaveRaise(t, "AttributeError", "AttributeError")
    /\ UNCHANGED <<engine, call, io, index>>

\* conn.commit(), return customer_id, finally conn.close(); in the connector
\* the return leaves the with block and __exit__ commits and closes
SaveCommit(t) ==
    LET tx == frame[t].tx
    IN  /\ pc[t] = "sv_commit"
        /\ tables' = [tables EXCEPT !.customers = tx.customers, !.calls = tx.calls,
                                    !.summaries = tx.summaries,
                                    !.sentiments = tx.sentiments,
                                    !.vehicles = tx.vehicles]
        /\ frame' = [frame EXCEPT ![t].conn = "closed"]
        /\ result' = [result EXCEPT ![t] = VInt(frame[t].customer_id)]
        /\ pc' = [pc EXCEPT ![t] = "done"]
        /\ UNCHANGED <<engine, call, io, fault, index>>

SaveStep(t) ==
    \/ SaveConnect(t)
    \/ SaveBroken(t)
    \/ SaveCustomer(t)
    \/ SaveCallRow(t)
    \/ SaveSummary(t)
    \/ SaveSentiment(t)
    \/ SaveVehicle(t)
    \/ SaveCommit(t)

\* FROM calls cl JOIN customers c LEFT JOIN vehicles/summaries/sentiments in the
\* service, JOIN vehicles in the connector
Joined(via) ==
    IF via = "service" THEN tables.calls
    ELSE { c \in tables.calls : \E v \in tables.vehicles : v.call_id = c.call_id }

\* ORDER BY cl.created_time DESC: calls of one created_time in any order
NewestFirst(S) ==
    Orderings(S, { p \in S \X S : p[1].created_time >= p[2].created_time })

\* LIMIT per_page OFFSET offset
PageOf(rows, per_page, offset) ==
    IF offset >= Len(rows) THEN << >>
    ELSE SubSeq(rows, offset + 1, Min(offset + per_page, Len(rows)))

\* math.ceil(total_items / per_page)
Ceil(n, d) == (n + d - 1) \div d

Page(sids, total_items, total_pages) ==
    [tag |-> "page", val |-> sids, total_items |-> total_items,
     total_pages |-> total_pages]

\* the service builds a VehicleDataModel from every row, whose vehicle is a
\* required string: a call without a vehicle row fails the validation
Unbuildable(via, rows) ==
    /\ via = "service"
    /\ \E i \in 1..Len(rows) : ~\E v \in tables.vehicles : v.call_id = rows[i].call_id

\* get_conversation_data: one SELECT with COUNT(*) OVER() AS total_items, read
\* from the first row of the page
GetConversation(t) ==
    LET via      == call[t].via
        per_page == call[t].per_page
        offset   == (call[t].page - 1) * per_page
    IN  /\ pc[t] = "gc_query"
        /\ \E ordered \in NewestFirst(Joined(via)) :
              LET rows        == PageOf(ordered, per_page, offset)
                  total_items == IF rows # << >> THEN Len(ordered) ELSE 0
                  total_pages == IF total_items > 0 THEN Ceil(total_items, per_page) ELSE 0
              IN  IF Unbuildable(via, rows)
                  THEN /\ fault' = [fault EXCEPT ![t] = "ValidationError"]
                       /\ result' = [result EXCEPT ![t] = Raised("ValidationError")]
                  ELSE /\ result' = [result EXCEPT ![t] =
                                       Page([i \in 1..Len(rows) |-> rows[i].sid],
                                            total_items, total_pages)]
                       /\ UNCHANGED fault
        /\ pc' = [pc EXCEPT ![t] = "done"]
        /\ UNCHANGED <<engine, call, io, index, frame, tables>>

NextConversations ==
    \/ \E c \in SaveCalls : Start(1, c) /\ UNCHANGED stores
    \/ SaveStep(1)

SpecConversations == Init /\ [][NextConversations]_vars

MaxStored == 2

\* the tables after n complete calls of one customer were saved through the
\* service: call i has SID CA00i, created_time cts[i], a vehicle row when vs[i]
StoredCalls(n, cts, vs) ==
    [NoTables EXCEPT
        !.customers = IF n = 0 THEN {}
                      ELSE {[customer_id |-> 1, phone_number |-> "5550100",
                             first_name |-> "Ann"]},
        !.calls = { [call_id |-> i, customer_id |-> 1, sid |-> "CA00" \o ToString(i),
                     created_time |-> cts[i]] : i \in 1..n },
        !.summaries = { [call_id |-> i] : i \in 1..n },
        !.sentiments = { [call_id |-> i] : i \in 1..n },
        !.vehicles = { [call_id |-> i, vehicle |-> "Corolla"] : i \in { j \in 1..n : vs[j] } },
        !.customer_seq = n,
        !.call_seq = n]

StoredStates ==
    UNION { { StoredCalls(n, cts, vs) : cts \in [1..n -> CreatedTimes],
                                        vs \in [1..n -> BOOLEAN] } : n \in 0..MaxStored }

InitPages == InitWith(EngineTable) /\ tables \in StoredStates

NextPages ==
    \/ \E c \in GetCalls : Start(1, c) /\ UNCHANGED stores
    \/ GetConversation(1)

SpecPages == InitPages /\ [][NextPages]_vars

SaveRunning(t) ==
    /\ call[t].op = "save_conversation_data"
    /\ pc[t] \in {"sv_customer", "sv_call", "sv_summary", "sv_sentiment", "sv_vehicle",
                  "sv_commit"}

SaveDone(t) == call[t].op = "save_conversation_data" /\ pc[t] = "done"

\* the rows a complete call leaves in the tables
SaveVisible(t) ==
    \E cu \in tables.customers, cl \in tables.calls :
        /\ cu.customer_id = result[t].val
        /\ cu.phone_number = call[t].phone_number
        /\ cu.first_name = call[t].first_name
        /\ cl.customer_id = cu.customer_id
        /\ cl.sid = call[t].sid
        /\ cl.created_time = call[t].created_time
        /\ call[t].via = "service" =>
              /\ [call_id |-> cl.call_id] \in tables.summaries
              /\ [call_id |-> cl.call_id] \in tables.sentiments
        /\ call[t].vehicle_data # << >> =>
              [call_id |-> cl.call_id, vehicle |-> call[t].vehicle_data[1]]
                  \in tables.vehicles

GetDone(t) == call[t].op = "get_conversation_data" /\ pc[t] = "done"

\* C30: get_conversation_data(page, per_page) returns items
\* (page-1)*per_page+1 .. page*per_page of the stored calls in descending
\* created_time order, at most per_page of them, with total_items the number
\* of stored calls and total_pages = ceil(total_items / per_page), on every
\* page >= 1, those past the last one included.  Stated for calls stored with
\* their vehicle, as the request model has them.
C30_PageOfStoredCalls ==
    (GetDone(1) /\ \A c \in tables.calls : \E v \in tables.vehicles : v.call_id = c.call_id) =>
        /\ result[1].tag = "page"
        /\ Len(result[1].val) <= call[1].per_page
        /\ \E ordered \in NewestFirst(tables.calls) :
              result[1].val =
                  [i \in 1..Len(PageOf(ordered, call[1].per_page,
                                       (call[1].page - 1) * call[1].per_page)) |->
                      PageOf(ordered, call[1].per_page,
                             (call[1].page - 1) * call[1].per_page)[i].sid]
        /\ result[1].total_items = Cardinality(tables.calls)
        /\ result[1].total_pages = Ceil(Cardinality(tables.calls), call[1].per_page)

\* C30 without the metadata: the items of the page.  It holds in the service
\* for calls stored with a vehicle.
C30_PageItems ==
    (GetDone(1) /\ call[1].via = "service" /\ result[1].tag = "page") =>
        /\ Len(result[1].val) <= call[1].per_page
        /\ \E ordered \in NewestFirst(tables.calls) :
              result[1].val =
                  [i \in 1..Len(PageOf(ordered, call[1].per_page,
                                       (call[1].page - 1) * call[1].per_page)) |->
                      PageOf(ordered, call[1].per_page,
                             (call[1].page - 1) * call[1].per_page)[i].sid]

(***************************************************************************)
(* AppointmentService: create_appointment, update_appointment and          *)
(* delete_appointment_by_phone_number, each one statement and a commit on  *)
(* a connection of its own.  The table declares id UUID PRIMARY KEY, with  *)
(* no default, and customer_phone_number VARCHAR(20) NOT NULL UNIQUE.      *)
(***************************************************************************)
CreateCall(phone, name) ==
    [op |-> "create_appointment", query |-> "", customer_phone_number |-> phone,
     customer_name |-> name]

\* customer_name << >>: the data holds no field but the phone number
UpdateCall(phone, name) ==
    [op |-> "update_appointment", query |-> "", customer_phone_number |-> phone,
     customer_name |-> name]

DeleteCall(phone) ==
    [op |-> "delete_appointment_by_phone_number", query |-> "",
     customer_phone_number |-> phone]

AppointmentCalls ==
    { CreateCall(ph, n) : ph \in PhoneNumbers, n \in CustomerNames }
    \cup { UpdateCall(ph, n) : ph \in PhoneNumbers,
                               n \in {<< >>} \cup { <<m>> : m \in CustomerNames } }
    \cup { DeleteCall(ph) : ph \in PhoneNumbers }

\* the columns the INSERT of create_appointment names
InsertColumns ==
    {"customer_name", "customer_phone_number", "appointment_date", "appointment_time",
     "vehicle_details", "service", "remarks"}

\* the columns of the table that have a DEFAULT
DefaultColumns == {"created_at"}

NotNullColumns ==
    {"id", "customer_name", "customer_phone_number", "appointment_date", "appointment_time"}

Matching(phone) == { r \in tables.appointments : r.customer_phone_number = phone }

\* what the call saw and left, kept for the properties
Seen(t, op, after) ==
    [frame EXCEPT ![t] = [op |-> op, before |-> tables.appointments, after |-> after]]

\* sql_query INSERT ... RETURNING id, commit; the except clauses
AppointmentCreate(t) ==
    LET phone == call[t].customer_phone_number
        error == IF NotNullColumns \ (InsertColumns \cup DefaultColumns) # {}
                 THEN "NotNullViolation"
                 ELSE IF Matching(phone) # {} THEN "UniqueViolation"
                 ELSE ""
        row   == [id |-> "id-" \o phone, customer_phone_number |-> phone,
                  customer_name |-> call[t].customer_name]
    IN  /\ pc[t] = "ap_create"
        /\ IF error = ""
           THEN /\ tables' = [tables EXCEPT !.appointments = @ \cup {row}]
                /\ result' = [result EXCEPT ![t] = VStr(row.id)]
                /\ frame' = Seen(t, "create_appointment", tables.appointments \cup {row})
                /\ UNCHANGED fault
           ELSE /\ fault' = [fault EXCEPT ![t] = error]
                /\ result' = [result EXCEPT ![t] =
                                Raised(IF error = "UniqueViolation"
                                       THEN "AppointmentAlreadyExistsError"
                                       ELSE "DatabaseConnectionException")]
                /\ frame' = Seen(t, "create_appointment", tables.appointments)
                /\ UNCHANGED tables
        /\ pc' = [pc EXCEPT ![t] = "done"]
        /\ UNCHANGED <<engine, call, io, index>>

\* the dynamic UPDATE ... WHERE customer_phone_number = %s RETURNING id, commit,
\* then AppointmentNotFoundError when no row came back; no statement at all when
\* the data holds no field to set
AppointmentUpdate(t) ==
    LET phone   == call[t].customer_phone_number
        found   == Matching(phone)
        updated == { [r EXCEPT !.customer_name = call[t].customer_name[1]] : r \in found }
    IN  /\ pc[t] = "ap_update"
        /\ IF call[t].customer_name = << >>
           THEN /\ result' = [result EXCEPT ![t] = VBool(TRUE)]
                /\ frame' = Seen(t, "update_appointment", tables.appointments)
                /\ UNCHANGED tables
           ELSE /\ tables' = [tables EXCEPT !.appointments = (@ \ found) \cup updated]
                /\ frame' = Seen(t, "update_appointment",
                                 (tables.appointments \ found) \cup updated)
                /\ result' = [result EXCEPT ![t] =
                                IF found = {} THEN Raised("AppointmentNotFoundError")
                                ELSE VBool(TRUE)]
        /\ pc' = [pc EXCEPT ![t] = "done"]
        /\ UNCHANGED <<engine, call, io, fault, index>>

\* DELETE ... WHERE customer_phone_number = %s RETURNING id, commit, then
\* AppointmentNotFoundError when no row came back
AppointmentDelete(t) ==
    LET found == Matching(call[t].customer_phone_number)
    IN  /\ pc[t] = "ap_delete"
        /\ tables' = [tables EXCEPT !.appointments = @ \ found]
        /\ frame' = Seen(t, "delete_appointment_by_phone_number",
                         tables.appointments \ found)
        /\ result' = [result EXCEPT ![t] =
                        IF found = {} THEN Raised("AppointmentNotFoundError")
                        ELSE VBool(TRUE)]
        /\ pc' = [pc EXCEPT ![t] = "done"]
        /\ UNCHANGED <<engine, call, io, fault, index>>

\* appointments that are in the table when the service starts
StoredAppointments ==
    { { [id |-> "id-" \o ph, customer_phone_number |-> ph, customer_name |-> "Ann"] :
          ph \in S } : S \in SUBSET PhoneNumbers }

InitAppointments ==
    /\ InitWith(EngineTable)
    /\ \E stored \in StoredAppointments : tables = [NoTables EXCEPT !.appointments = stored]

NextAppointments ==
    \/ \E c \in AppointmentCalls : Start(1, c) /\ UNCHANGED stores
    \/ AppointmentCreate(1)
    \/ AppointmentUpdate(1)
    \/ AppointmentDelete(1)

SpecAppointments == InitAppointments /\ [][NextAppointments]_vars

AppointmentDone(t, op) == pc[t] = "done" /\ call[t].op = op

HadAppointment(t) ==
    \E r \in frame[t].before : r.customer_phone_number = call[t].customer_phone_number

\* C29: the table never holds two appointments with one customer_phone_number;
\* create_appointment for a phone number without an appointment stores one and
\* returns its id, for a phone number with an appointment it raises
\* AppointmentAlreadyExistsError and changes nothing; update_appointment and
\* delete_appointment_by_phone_number for a phone number without an
\* appointment raise AppointmentNotFoundError and change nothing.
C29_OneAppointmentPerPhone ==
    /\ \A r1, r2 \in tables.appointments :
          r1.customer_phone_number = r2.customer_phone_number => r1 = r2
    /\ \A t \in Threads :
          /\ AppointmentDone(t, "create_appointment") =>
                IF HadAppointment(t)
                THEN /\ result[t] = Raised("AppointmentAlreadyExistsError")
                     /\ frame[t].after = frame[t].before
                ELSE /\ result[t].tag = "str"
                     /\ \E r \in frame[t].after :
                           /\ r.id = result[t].val
                           /\ r.customer_phone_number = call[t].customer_phone_number
          /\ (\/ AppointmentDone(t, "update_appointment")
              \/ AppointmentDone(t, "delete_appointment_by_phone_number")) =>
                (~HadAppointment(t) =>
                    /\ result[t] = Raised("AppointmentNotFoundError")
                    /\ frame[t].after = frame[t].before)

\* C29, the parts that hold: one appointment per phone number, and delete for
\* a phone number without an appointment raises and changes nothing
C29_UniqueAndDeleteMissing ==
    /\ \A r1, r2 \in tables.appointments :
          r1.customer_phone_number = r2.customer_phone_number => r1 = r2
    /\ \A t \in Threads :
          (AppointmentDone(t, "delete_appointment_by_phone_number") /\ ~HadAppointment(t)) =>
              /\ result[t] = Raised("AppointmentNotFoundError")
              /\ frame[t].after = frame[t].before

\* C29 for update_appointment alone
C29_UpdateMissingRaises ==
    \A t \in Threads :
        (AppointmentDone(t, "update_appointment") /\ ~HadAppointment(t)) =>
            result[t] = Raised("AppointmentNotFoundError")

\* C29 for create_appointment on a phone number that has an appointment
C29_CreateExistingRaises ==
    \A t \in Threads :
        (AppointmentDone(t, "create_appointment") /\ HadAppointment(t)) =>
            result[t] = Raised("AppointmentAlreadyExistsError")

====
